---- MODULE Spec2Model ----
(***************************************************************************)
(* The message-analysis and reply-generation pipeline of the unified inbox *)
(* backend: the analysis runners and their parsers, the orchestrator, the  *)
(* rule-based fallback, the persistence coordinator (AIService) and the    *)
(* reply review workflow (SmartReplyService).                              *)
(*                                                                         *)
(* Text is a TLA+ string, handled character by character as the Python     *)
(* code handles it.  A float is an integer number of hundredths (0.3 is    *)
(* 30); NaN and the infinities are the three values below.                 *)
(***************************************************************************)
EXTENDS Integers, Sequences, FiniteSets, TLC

\* Python's None, for the optional text fields.
None == "<None>"

(***************************************************************************)
(* Python str methods                                                      *)
(***************************************************************************)
Char(s, i) == SubSeq(s, i, i)

UpperLetters == "ABCDEFGHIJKLMNOPQRSTUVWXYZ"

LowerLetters == "abcdefghijklmnopqrstuvwxyz"

LowerChar(c) ==
    IF \E k \in 1..Len(UpperLetters) : Char(UpperLetters, k) = c
    THEN Char(LowerLetters, CHOOSE k \in 1..Len(UpperLetters) : Char(UpperLetters, k) = c)
    ELSE c

RECURSIVE Lower(_)
Lower(s) == IF Len(s) = 0 THEN "" ELSE LowerChar(Char(s, 1)) \o Lower(SubSeq(s, 2, Len(s)))

IsSpace(c) == c \in {" ", "\n", "\t", "\r"}

RECURSIVE LStrip(_)
LStrip(s) == IF Len(s) > 0 /\ IsSpace(Char(s, 1)) THEN LStrip(SubSeq(s, 2, Len(s))) ELSE s

RECURSIVE RStrip(_)
RStrip(s) == IF Len(s) > 0 /\ IsSpace(Char(s, Len(s))) THEN RStrip(SubSeq(s, 1, Len(s) - 1)) ELSE s

Strip(s) == RStrip(LStrip(s))

\* s[i:] starts with p  (i is a 1-based position)
MatchAt(s, i, p) == i >= 1 /\ i + Len(p) - 1 <= Len(s) /\ SubSeq(s, i, i + Len(p) - 1) = p

StartsWith(s, p) == MatchAt(s, 1, p)

\* p in s
Contains(p, s) == \E i \in 1..(Len(s) + 1) : MatchAt(s, i, p)

\* s.find(p), 1-based; 0 when p does not occur
Find(s, p) ==
    IF Contains(p, s)
    THEN CHOOSE i \in 1..(Len(s) + 1) : MatchAt(s, i, p) /\ \A j \in 1..(i - 1) : ~MatchAt(s, j, p)
    ELSE 0

\* s.split(sep): every piece, sep a non-empty string
RECURSIVE Split(_, _)
Split(s, sep) ==
    LET i == Find(s, sep)
    IN  IF i = 0 THEN <<s>>
        ELSE <<SubSeq(s, 1, i - 1)>> \o Split(SubSeq(s, i + Len(sep), Len(s)), sep)

\* s.split(sep, 1): at most two pieces
Split1(s, sep) ==
    LET i == Find(s, sep)
    IN  IF i = 0 THEN <<s>>
        ELSE <<SubSeq(s, 1, i - 1), SubSeq(s, i + Len(sep), Len(s))>>

\* s.replace(old, new), old a non-empty string
RECURSIVE Replace(_, _, _)
Replace(s, old, new) ==
    LET i == Find(s, old)
    IN  IF i = 0 THEN s
        ELSE SubSeq(s, 1, i - 1) \o new \o Replace(SubSeq(s, i + Len(old), Len(s)), old, new)

\* s[:n]
Prefix(s, n) == IF Len(s) <= n THEN s ELSE SubSeq(s, 1, n)

\* any(k in s for k in keywords)
AnyIn(keywords, s) == \E k \in 1..Len(keywords) : Contains(keywords[k], s)

(***************************************************************************)
(* Python floats, in hundredths                                            *)
(***************************************************************************)
NaN == 999999

PosInf == 100000

NegInf == -100000

\* a < b on floats: every comparison with NaN is false
FloatLess(a, b) == a # NaN /\ b # NaN /\ a < b

\* min(a, b) and max(a, b) as the builtins compute them: the first argument
\* is kept unless the second compares strictly smaller (larger)
PyMin(a, b) == IF FloatLess(b, a) THEN b ELSE a

PyMax(a, b) == IF FloatLess(a, b) THEN b ELSE a

\* The float literals the model outputs of this development use; float() of
\* any other text raises ValueError.
FloatLiterals ==
    [s \in {"0.0", "0.3", "0.31", "0.5", "0.9", "0.95", "1.0", "1.5", "7", "-0.2", "nan", "inf", "-inf"} |->
        CASE s = "0.0"  -> 0
          [] s = "0.3"  -> 30
          [] s = "0.31" -> 31
          [] s = "0.5"  -> 50
          [] s = "0.9"  -> 90
          [] s = "0.95" -> 95
          [] s = "1.0"  -> 100
          [] s = "1.5"  -> 150
          [] s = "7"    -> 700
          [] s = "-0.2" -> -20
          [] s = "nan"  -> NaN
          [] s = "inf"  -> PosInf
          [] s = "-inf" -> NegInf]

\* float(s): [ok |-> TRUE, v |-> value] or [ok |-> FALSE] for ValueError
ParseFloat(s) ==
    LET t == Strip(s)
    IN  IF t \in DOMAIN FloatLiterals THEN [ok |-> TRUE, v |-> FloatLiterals[t]]
        ELSE [ok |-> FALSE, v |-> 0]

(***************************************************************************)
(* The analysis task runners: the parse of the model's text                *)
(* (app/ai/chains).  A runner whose model call raises has no text to       *)
(* parse; that case is decided by the orchestrator below.                  *)
(***************************************************************************)
summarize_message(text) == Strip(text)

valid_intents == {"request", "information", "question", "meeting", "notification", "social", "other"}

classify_intent(text) ==
    LET intent == Lower(Strip(text))
    IN  IF intent \notin valid_intents THEN "other" ELSE intent

\* a variant without the clamp of line 60
calculate_priority_unclamped(text) ==
    LET f == ParseFloat(text)
    IN  IF f.ok THEN f.v ELSE 50

calculate_priority(text) ==
    LET f == ParseFloat(text)
    IN  IF f.ok THEN PyMax(0, PyMin(100, f.v)) ELSE 50

RECURSIVE TaskLines(_)
TaskLines(lines) ==
    IF lines = <<>> THEN <<>>
    ELSE LET line  == Strip(Head(lines))
             parts == Split1(line, ":")
             task_type   == Lower(Strip(parts[1]))
             description == Strip(parts[2])
         IN  (IF line # "" /\ Contains(":", line) /\ Len(parts) = 2
                 /\ task_type \in {"task", "deadline", "meeting"}
              THEN <<[type |-> task_type, description |-> description]>>
              ELSE <<>>) \o TaskLines(Tail(lines))

\* a variant that gives up the whole output at its first malformed line
extract_tasks_strict(text) ==
    LET result == Strip(text)
        lines  == Split(result, "\n")
        kept   == TaskLines(lines)
    IN  IF result = "NO_TASKS" \/ result = "" THEN <<>>
        ELSE IF Len(kept) = Len(lines) THEN kept ELSE <<>>

extract_tasks(text) ==
    LET result == Strip(text)
    IN  IF result = "NO_TASKS" \/ result = "" THEN <<>>
        ELSE TaskLines(Split(result, "\n"))

DeadlineDate(line) ==
    LET parts     == Split(line, "|")
        date_part == Strip(parts[2])
        date_str  == Strip(Replace(date_part, "DATE:", ""))
    IN  IF Contains("|", line) /\ Contains("DATE:", line) /\ StartsWith(date_part, "DATE:")
           /\ Lower(date_str) \notin {"none", "not mentioned", ""}
        THEN date_str
        ELSE None

RECURSIVE DeadlineLines(_)
DeadlineLines(lines) ==
    IF lines = <<>> THEN <<>>
    ELSE LET raw  == Strip(Head(lines))
             line == Strip(Replace(raw, "DEADLINE:", ""))
             description == IF Contains("|", line) /\ Contains("DATE:", line)
                            THEN Strip(Split(line, "|")[1])
                            ELSE line
         IN  (IF raw # "" /\ StartsWith(raw, "DEADLINE:")
              THEN <<[description |-> description, date |-> DeadlineDate(line)]>>
              ELSE <<>>) \o DeadlineLines(Tail(lines))

detect_deadlines(text) ==
    LET result == Strip(text)
    IN  IF result = "NO_DEADLINES" \/ result = "" THEN <<>>
        ELSE DeadlineLines(Split(result, "\n"))

(***************************************************************************)
(* extract_unsubscribe_link: the regular expressions, matched as           *)
(* re.search matches them (leftmost start, greedy repetition)              *)
(***************************************************************************)
\* length of the text https?:// matches at position i of s, 0 for no match
SchemeLen(s, i) ==
    IF MatchAt(s, i, "https://") THEN 8 ELSE IF MatchAt(s, i, "http://") THEN 7 ELSE 0

\* first position >= i of s whose character is in chars; Len(s) + 1 when there is none
FirstOf(s, i, chars) ==
    IF \E k \in i..Len(s) : Char(s, k) \in chars
    THEN CHOOSE k \in i..Len(s) : Char(s, k) \in chars /\ \A j \in i..(k - 1) : Char(s, j) \notin chars
    ELSE Len(s) + 1

\* r'<(https?://[^>]+)>' at start position i: group 1, or None
HeaderUrlAt(s, i) ==
    LET n == SchemeLen(s, i + 1)
        e == FirstOf(s, i + 1 + n, {">"})
    IN  IF Char(s, i) = "<" /\ n > 0 /\ e <= Len(s) /\ e > i + 1 + n
        THEN SubSeq(s, i + 1, e - 1)
        ELSE None

HeaderUrl(s) ==
    IF \E i \in 1..Len(s) : HeaderUrlAt(s, i) # None
    THEN HeaderUrlAt(s, CHOOSE i \in 1..Len(s) :
                          HeaderUrlAt(s, i) # None /\ \A j \in 1..(i - 1) : HeaderUrlAt(s, j) = None)
    ELSE None

Quotes == {"\"", "'"}

\* href=["']([^"']*kw[^"']*)["'] at position j: group 1, or None
HrefAt(s, j, kw) ==
    LET q == FirstOf(s, j + 6, Quotes)
        g == SubSeq(s, j + 6, q - 1)
    IN  IF MatchAt(Lower(s), j, "href=") /\ j + 5 <= Len(s) /\ Char(s, j + 5) \in Quotes
           /\ q <= Len(s) /\ Contains(kw, Lower(g))
        THEN g
        ELSE None

\* r'<a[^>]+href=["\']([^"\']*kw[^"\']*)["\']' at start position i, re.IGNORECASE:
\* [^>]+ is greedy, so the last href= it can reach is the one matched
AnchorAt(s, i, kw) ==
    LET stop == FirstOf(s, i + 2, {">"})
        js   == {j \in (i + 3)..Len(s) : j <= stop /\ HrefAt(s, j, kw) # None}
    IN  IF MatchAt(Lower(s), i, "<a") /\ js # {}
        THEN HrefAt(s, CHOOSE j \in js : \A k \in js : k <= j, kw)
        ELSE None

AnchorUrl(s, kw) ==
    IF \E i \in 1..Len(s) : AnchorAt(s, i, kw) # None
    THEN AnchorAt(s, CHOOSE i \in 1..Len(s) :
                        AnchorAt(s, i, kw) # None /\ \A j \in 1..(i - 1) : AnchorAt(s, j, kw) = None, kw)
    ELSE None

UrlStop == {" ", "\n", "\t", "\r", "<", ">", "\""}

\* r'(https?://[^\s<>"]+kw[^\s<>"]*)' at start position i, re.IGNORECASE
BareAt(s, i, kw) ==
    LET n   == SchemeLen(Lower(s), i)
        e   == FirstOf(s, i + n, UrlStop)
        run == SubSeq(s, i + n, e - 1)
    IN  IF n > 0 /\ \E k \in 2..Len(run) : MatchAt(Lower(run), k, kw)
        THEN SubSeq(s, i, e - 1)
        ELSE None

BareUrl(s, kw) ==
    IF \E i \in 1..Len(s) : BareAt(s, i, kw) # None
    THEN BareAt(s, CHOOSE i \in 1..Len(s) :
                      BareAt(s, i, kw) # None /\ \A j \in 1..(i - 1) : BareAt(s, j, kw) = None, kw)
    ELSE None

\* metadata is a dict: a function from its keys to text
NoMetadata == [k \in {} |-> ""]

\* a variant that looks into the content before the header
extract_unsubscribe_link_content_first(content, metadata) ==
    LET header == IF "list_unsubscribe" \in DOMAIN metadata
                  THEN HeaderUrl(metadata["list_unsubscribe"]) ELSE None
        found  == << AnchorUrl(content, "unsubscribe"), AnchorUrl(content, "opt-out"),
                     AnchorUrl(content, "remove"), BareUrl(content, "unsubscribe"),
                     BareUrl(content, "opt-out") >>
    IN  IF \E k \in 1..5 : found[k] # None
        THEN found[CHOOSE k \in 1..5 : found[k] # None /\ \A j \in 1..(k - 1) : found[j] = None]
        ELSE header

extract_unsubscribe_link(content, metadata) ==
    LET header == IF "list_unsubscribe" \in DOMAIN metadata
                  THEN HeaderUrl(metadata["list_unsubscribe"]) ELSE None
        found  == << AnchorUrl(content, "unsubscribe"), AnchorUrl(content, "opt-out"),
                     AnchorUrl(content, "remove"), BareUrl(content, "unsubscribe"),
                     BareUrl(content, "opt-out") >>
    IN  IF header # None THEN header
        ELSE IF \E k \in 1..5 : found[k] # None
             THEN found[CHOOSE k \in 1..5 : found[k] # None /\ \A j \in 1..(k - 1) : found[j] = None]
             ELSE None

\* one line of the spam runner's output applied to the fields parsed so far
SpamLine(acc, raw) ==
    LET line  == Strip(raw)
        value == Strip(Split1(line, ":")[2])
        f     == ParseFloat(value)
    IN  IF StartsWith(line, "IS_SPAM:") THEN [acc EXCEPT !.is_spam = (Lower(value) = "true")]
        ELSE IF StartsWith(line, "SPAM_SCORE:")
             THEN [acc EXCEPT !.spam_score = IF f.ok THEN PyMax(0, PyMin(100, f.v))
                                             ELSE IF acc.is_spam THEN 50 ELSE 0]
        ELSE IF StartsWith(line, "SPAM_TYPE:") THEN [acc EXCEPT !.spam_type = Lower(value)]
        ELSE IF StartsWith(line, "REASON:") THEN [acc EXCEPT !.reason = value]
        ELSE acc

RECURSIVE SpamLines(_, _)
SpamLines(acc, lines) ==
    IF lines = <<>> THEN acc ELSE SpamLines(SpamLine(acc, Head(lines)), Tail(lines))

detect_spam(text, content, metadata) ==
    LET p == SpamLines([is_spam |-> FALSE, spam_score |-> 0, spam_type |-> "none", reason |-> "Not spam"],
                       Split(Strip(text), "\n"))
    IN  [is_spam |-> p.is_spam, spam_score |-> p.spam_score, spam_type |-> p.spam_type,
         unsubscribe_link |->
             IF p.is_spam /\ p.spam_type \in {"promotional", "newsletter", "marketing"}
             THEN extract_unsubscribe_link(content, metadata) ELSE None,
         reason |-> p.reason]

\* generate_smart_replies: one REPLY_ line parsed into a suggestion
ReplyLine(line) ==
    LET content  == Strip(Split1(line, ":")[2])
        typed    == StartsWith(content, "[") /\ Contains("]", content)
        type_end == Find(content, "]")
        rtype    == IF typed THEN Lower(SubSeq(content, 2, type_end - 1)) ELSE "general"
        text     == IF typed THEN Strip(SubSeq(content, type_end + 1, Len(content))) ELSE content
    IN  [text |-> text, type |-> rtype,
         confidence |-> IF rtype \in {"acknowledgment", "thanks"} THEN 90
                        ELSE IF Len(text) < 20 THEN 70 ELSE 80]

RECURSIVE ReplyLines(_)
ReplyLines(lines) ==
    IF lines = <<>> THEN <<>>
    ELSE LET line == Strip(Head(lines))
         IN  (IF StartsWith(line, "REPLY_") /\ Len(Split1(line, ":")) = 2
              THEN <<ReplyLine(line)>> ELSE <<>>) \o ReplyLines(Tail(lines))

FallbackReplies ==
    << [text |-> "Thank you for your message.", type |-> "acknowledgment", confidence |-> 60],
       [text |-> "I'll get back to you soon.", type |-> "defer", confidence |-> 60],
       [text |-> "Thanks for reaching out!", type |-> "thanks", confidence |-> 60] >>

\* a variant without the slice of line 106
generate_smart_replies_untruncated(text) ==
    LET replies == ReplyLines(Split(Strip(text), "\n"))
    IN  IF replies = <<>> THEN FallbackReplies ELSE replies

generate_smart_replies(text) ==
    LET replies == ReplyLines(Split(Strip(text), "\n"))
        chosen  == IF replies = <<>> THEN FallbackReplies ELSE replies
    IN  SubSeq(chosen, 1, IF Len(chosen) < 3 THEN Len(chosen) ELSE 3)

(***************************************************************************)
(* BasicTextProcessor: the rule-based fallback (app/ai/fallback.py)        *)
(***************************************************************************)
task_keywords ==
    <<"todo", "task", "action item", "need to", "should", "must",
      "please", "can you", "could you", "would you">>

deadline_keywords ==
    <<"deadline", "due", "by", "before", "until", "eod", "eow",
      "today", "tomorrow", "next week", "this week">>

high_priority_keywords ==
    <<"urgent", "asap", "critical", "important", "emergency", "immediately", "high priority">>

medium_priority_keywords == <<"soon", "when possible", "at your convenience">>

info_keywords == <<"fyi", "info", "update", "announcement">>

\* re.split(r'[.!?\n]', s)
RECURSIVE SplitSentences(_)
SplitSentences(s) ==
    LET i == FirstOf(s, 1, {".", "!", "?", "\n"})
    IN  IF i > Len(s) THEN <<s>>
        ELSE <<SubSeq(s, 1, i - 1)>> \o SplitSentences(SubSeq(s, i + 1, Len(s)))

generate_summary(message) ==
    LET content == Strip(message.content)
    IN  IF message.subject # None /\ message.subject # "" THEN Prefix(message.subject, 150)
        ELSE IF Len(content) <= 150 THEN content
        ELSE Prefix(content, 147) \o "..."

BasicTextProcessor_classify_intent(message) ==
    LET content_lower == Lower(message.content)
    IN  IF Contains("?", message.content) THEN "question"
        ELSE IF AnyIn(task_keywords, content_lower) THEN "task_request"
        ELSE IF message.platform = "calendar" THEN "meeting"
        ELSE IF AnyIn(info_keywords, content_lower) THEN "information"
        ELSE "general"

\* the first sentence that holds the keyword and is longer than 10 characters
\* (at most one per keyword), or <<>>
KeywordSentence(content, keyword) ==
    LET sentences == SplitSentences(content)
        hit(k)    == Contains(keyword, Lower(sentences[k])) /\ Len(Strip(sentences[k])) > 10
    IN  IF Contains(keyword, Lower(content)) /\ \E k \in 1..Len(sentences) : hit(k)
        THEN <<Prefix(Strip(sentences[CHOOSE k \in 1..Len(sentences) :
                                        hit(k) /\ \A j \in 1..(k - 1) : ~hit(j)]), 200)>>
        ELSE <<>>

RECURSIVE KeywordSentences(_, _)
KeywordSentences(content, keywords) ==
    IF keywords = <<>> THEN <<>>
    ELSE KeywordSentence(content, Head(keywords)) \o KeywordSentences(content, Tail(keywords))

BasicTextProcessor_extract_tasks(message) ==
    LET found == KeywordSentences(message.content, task_keywords)
        tasks == [k \in 1..Len(found) |-> [type |-> "task", description |-> found[k], deadline |-> None]]
    IN  SubSeq(tasks, 1, IF Len(tasks) < 3 THEN Len(tasks) ELSE 3)

BasicTextProcessor_detect_deadlines(message) ==
    LET found == KeywordSentences(message.content, deadline_keywords)
        dls   == [k \in 1..Len(found) |-> [description |-> found[k], date |-> None]]
    IN  SubSeq(dls, 1, IF Len(dls) < 2 THEN Len(dls) ELSE 2)

BasicTextProcessor_calculate_priority(message) ==
    LET content_lower == Lower(message.content)
    IN  IF AnyIn(high_priority_keywords, content_lower) THEN 90
        ELSE IF AnyIn(medium_priority_keywords, content_lower) THEN 60
        ELSE IF Contains("?", message.content) THEN 50
        ELSE IF AnyIn(task_keywords, content_lower) THEN 50
        ELSE 30

BasicTextProcessor_analyze(message) ==
    [summary        |-> generate_summary(message),
     intent         |-> BasicTextProcessor_classify_intent(message),
     priority_score |-> BasicTextProcessor_calculate_priority(message),
     tasks          |-> BasicTextProcessor_extract_tasks(message),
     deadlines      |-> BasicTextProcessor_detect_deadlines(message),
     fallback_used  |-> TRUE]

(***************************************************************************)
(* What a model call gives: its text, or an exception                      *)
(***************************************************************************)
Runners == {"summary", "intent", "priority", "tasks", "deadlines", "spam"}

Raised == [ok |-> FALSE, text |-> ""]

Said(text) == [ok |-> TRUE, text |-> text]

(***************************************************************************)
(* The messages and the model outputs the checks run on                    *)
(***************************************************************************)
Message(id, user, platform, sender, subject, content, thread, metadata, timestamp) ==
    [id |-> id, user_id |-> user, platform |-> platform, platform_message_id |-> "p-" \o id,
     sender |-> sender, subject |-> subject, content |-> content, thread_id |-> thread,
     metadata |-> metadata, timestamp |-> timestamp]

PromoContent == "Sale! <a href=\"https://x.com/unsubscribe?id=1\">unsubscribe</a>"

ListUnsubscribe == [k \in {"list_unsubscribe"} |-> "<mailto:u@x.com>, <https://x.com/u>"]

\* two users' messages in one platform thread
InboxMessages ==
    [m \in {"m1", "m2"} |->
        IF m = "m1"
        THEN Message("m1", "u1", "gmail", "Alice <alice@example.com>", "Budget",
                     "Please send the report by Friday. It is urgent!", "t1", NoMetadata, 1)
        ELSE Message("m2", "u2", "gmail", "News <NoReply@service.com>", None,
                     PromoContent, "t1", ListUnsubscribe, 2)]

\* the inbox and a second message of the first user, in a thread of its own
ThreadMessages ==
    [m \in {"m1", "m2", "m3"} |->
        IF m = "m3"
        THEN Message("m3", "u1", "gmail", "Bob <bob@example.com>", "Call",
                     "Can you join the call tomorrow?", "t2", NoMetadata, 3)
        ELSE InboxMessages[m]]

BaseOut ==
    [summary   |-> Said(" Budget needs sign-off \n"),
     intent    |-> Said(" Request\n"),
     priority  |-> Said("0.9"),
     tasks     |-> Said("task: send the report\ninvalidline\ndeadline: file taxes"),
     deadlines |-> Said("DEADLINE: file taxes | DATE: 2024-12-01\nDEADLINE: call Bob | DATE: none"),
     spam      |-> Said("IS_SPAM: false\nSPAM_SCORE: 0.0\nSPAM_TYPE: none\nREASON: personal")]

PromoOut ==
    [summary   |-> Said("Weekly offers"),
     intent    |-> Said("advert"),
     priority  |-> Said("0.31"),
     tasks     |-> Said("NO_TASKS"),
     deadlines |-> Said("DEADLINE: offer ends | DATE: tomorrow"),
     spam      |-> Said("IS_SPAM: true\nSPAM_SCORE: 0.95\nSPAM_TYPE: Promotional\nREASON: ad")]

AllRaised == [f \in Runners |-> Raised]

\* the model outputs of the long-running inbox
InboxOutputs == {BaseOut, PromoOut, AllRaised}

ThreeReplies == Said("REPLY_1: [Thanks] Thank you!\nREPLY_2: [confirm] Will do.\nREPLY_3: [defer] Later.")

\* the reply-suggestion model call: three parsed options, or the call raising
InboxReplies == {ThreeReplies, Raised}

OneReply == Said("REPLY_1: [Thanks] Thank you!")

\* senders: a person, the no-reply patterns in several cases, and the empty
\* From header (integrations/google/gmail.py line 189 defaults it to '')
WideSenders ==
    {"alice@example.com", "noreply@service.com", "Bob <No-Reply@Shop.com>",
     "NOTIFICATIONS@github.com", "postmaster@mail.org", "reply@norep.ly", ""}

\* contents that meet each rule of the fallback processor
WideContents ==
    {"Can you join the call tomorrow?", "Please review the doc. It is urgent!",
     "FYI the update is out.", "Lunch at noon", PromoContent}

\* one message, its sender or its content and platform varied
WideMessages ==
    {Message("m1", "u1", "gmail", sender, "Budget", "Please send the report by Friday. It is urgent!",
             "t1", NoMetadata, 1) : sender \in WideSenders}
    \cup {Message("m1", "u1", platform, "alice@example.com", None, content, None, NoMetadata, 1) :
              platform \in {"gmail", "calendar"}, content \in WideContents}

\* BaseOut with every set of runners raising
FailureOutputs == {[f \in Runners |-> IF f \in S THEN Raised ELSE BaseOut[f]] : S \in SUBSET Runners}

\* what the model may say for a priority: in range, at and next to the 0.3
\* threshold, out of range, not a number
PriorityTexts == {"0.3", "0.31", " 0.9\n", "1.5", "-0.2", "nan", "inf", "-inf", "high"}

\* what the model may say for spam: scores in and out of range, unparsable
\* scores before and after the IS_SPAM line, missing lines
SpamTexts ==
    {"IS_SPAM: false\nSPAM_SCORE: 0.0\nSPAM_TYPE: none\nREASON: personal",
     "IS_SPAM: true\nSPAM_SCORE: 0.95\nSPAM_TYPE: Promotional\nREASON: ad",
     "IS_SPAM: TRUE\nSPAM_SCORE: 7\nSPAM_TYPE: phishing",
     "IS_SPAM: true\nSPAM_SCORE: likely",
     "SPAM_SCORE: likely\nIS_SPAM: true",
     "IS_SPAM: no\nSPAM_SCORE: -0.2",
     "SPAM_SCORE: nan",
     "I cannot tell."}

ScoreOutputs ==
    {[BaseOut EXCEPT !.priority = Said(p), !.spam = Said(t)] : p \in PriorityTexts, t \in SpamTexts}

\* what the model may say for an intent: in the vocabulary (any case, padded)
\* and out of it
IntentTexts ==
    {"question", " Meeting \n", "SOCIAL", "notification", "information", "other",
     "task_request", "general", "The intent is: request", ""}

IntentOutputs == {[BaseOut EXCEPT !.intent = Said(t)] : t \in IntentTexts}

\* the model outputs of the single-message analyses
WideOutputs == FailureOutputs \cup ScoreOutputs \cup IntentOutputs \cup {PromoOut}

\* every message and model output of this development
KnownMessages == {ThreadMessages[m] : m \in DOMAIN ThreadMessages} \cup WideMessages

KnownOutputs == InboxOutputs \cup WideOutputs

KnownReplies == InboxReplies \cup {OneReply}

\* the texts runner f is given to parse
TextsOf(f) == {o[f].text : o \in {x \in KnownOutputs : x[f].ok}}

(***************************************************************************)
(* The runners' results, tabulated once over the texts above (a runner is  *)
(* a function of its text; detect_spam also of the message's content and   *)
(* metadata)                                                               *)
(***************************************************************************)
summaries == [t \in TextsOf("summary") |-> summarize_message(t)]

intents == [t \in TextsOf("intent") |-> classify_intent(t)]

priorities == [t \in TextsOf("priority") |-> calculate_priority(t)]

task_lists == [t \in TextsOf("tasks") |-> extract_tasks(t)]

deadline_lists == [t \in TextsOf("deadlines") |-> detect_deadlines(t)]

spam_results ==
    [t \in TextsOf("spam"), message \in KnownMessages |-> detect_spam(t, message.content, message.metadata)]

basic_results == [message \in KnownMessages |-> BasicTextProcessor_analyze(message)]

reply_lists == [t \in {r.text : r \in {x \in KnownReplies : x.ok}} |-> generate_smart_replies(t)]

(***************************************************************************)
(* MessageAnalysisAgent.analyze: the orchestrator                          *)
(* (app/ai/agents/analyzer.py).  `out` gives, for each runner, whether its *)
(* model call returned ([ok |-> TRUE, text |-> ...]) or raised; gather()   *)
(* with return_exceptions=True hands a raised runner's exception back as   *)
(* its result.                                                             *)
(***************************************************************************)
\* a variant in which one raising runner puts every field at its default
AnalyzeAllOrNothing(message, out) ==
    LET ok == \A f \in Runners : out[f].ok
        spam_result ==
            IF ok THEN spam_results[out.spam.text, message]
            ELSE [is_spam |-> FALSE, spam_score |-> 0, spam_type |-> "none", unsubscribe_link |-> None]
        task_tuples     == IF ok THEN task_lists[out.tasks.text] ELSE <<>>
        deadline_tuples == IF ok THEN deadline_lists[out.deadlines.text] ELSE <<>>
    IN  [summary        |-> IF ok THEN summaries[out.summary.text] ELSE "Error generating summary",
         intent         |-> IF ok THEN intents[out.intent.text] ELSE "other",
         priority_score |-> IF ok THEN priorities[out.priority.text] ELSE 50,
         tasks          |-> [k \in 1..Len(task_tuples) |->
                                [type |-> task_tuples[k].type,
                                 description |-> task_tuples[k].description, deadline |-> None]],
         deadlines      |-> deadline_tuples,
         is_spam          |-> spam_result.is_spam,
         spam_score       |-> spam_result.spam_score,
         spam_type        |-> spam_result.spam_type,
         unsubscribe_link |-> spam_result.unsubscribe_link]

MessageAnalysisAgent_analyze(message, out) ==
    LET spam_result ==
            IF out.spam.ok THEN spam_results[out.spam.text, message]
            ELSE [is_spam |-> FALSE, spam_score |-> 0, spam_type |-> "none", unsubscribe_link |-> None]
        task_tuples     == IF out.tasks.ok THEN task_lists[out.tasks.text] ELSE <<>>
        deadline_tuples == IF out.deadlines.ok THEN deadline_lists[out.deadlines.text] ELSE <<>>
    IN  [summary        |-> IF out.summary.ok THEN summaries[out.summary.text]
                            ELSE "Error generating summary",
         intent         |-> IF out.intent.ok THEN intents[out.intent.text] ELSE "other",
         priority_score |-> IF out.priority.ok THEN priorities[out.priority.text] ELSE 50,
         tasks          |-> [k \in 1..Len(task_tuples) |->
                                [type |-> task_tuples[k].type,
                                 description |-> task_tuples[k].description, deadline |-> None]],
         deadlines      |-> deadline_tuples,
         is_spam          |-> spam_result.is_spam,
         spam_score       |-> spam_result.spam_score,
         spam_type        |-> spam_result.spam_type,
         unsubscribe_link |-> spam_result.unsubscribe_link]

(***************************************************************************)
(* State                                                                   *)
(***************************************************************************)
VARIABLES
    messages,          \* table messages: message id -> row (written by ingestion only)
    connections,       \* table platform_connections: <<user, platform>> -> the tokens stored
    message_analysis,  \* table message_analysis, in insertion order
    actionable_items,  \* table actionable_items, in insertion order
    smart_replies,     \* table smart_replies; a reply's id is its position
    user_persona,      \* persona observations stored, in order
    embeddings,        \* the vector store: the points [message_id, user_id] (id and payload)
    outbox,            \* what the platform adapters delivered, in order
    reanalyses,        \* history: per message, the re-analyses that committed their rows
    pc,                \* per request: where its handler stands
    call,              \* per request: the handler's locals
    result             \* per request: what the finished handler handed to its caller

vars == << messages, connections, message_analysis, actionable_items, smart_replies,
           user_persona, embeddings, outbox, reanalyses, pc, call, result >>

stores == << message_analysis, actionable_items, smart_replies, user_persona, embeddings, outbox >>

Users == {"u1", "u2"}

NoCall == [op |-> "none"]

NoResult == [op |-> "none"]

Requests == DOMAIN pc

\* rows of table t (a sequence) that satisfy Keep
SelectRows(t, Keep(_)) == SelectSeq(t, Keep)

\* the largest number of smart_replies rows the model lets the table grow to
MaxReplies == 6

\* the largest number of committed re-analyses of one message
MaxReanalyses == 2

\* the largest number of platform deliveries
MaxOutbox == 2

(***************************************************************************)
(* AIService (app/services/ai.py)                                          *)
(***************************************************************************)
\* getattr(obj, name, default)
GetAttr(obj, name, default) == IF name \in DOMAIN obj THEN obj[name] ELSE default

IsDigit(c) == c \in {"0", "1", "2", "3", "4", "5", "6", "7", "8", "9"}

\* datetime.fromisoformat(s) on the date form YYYY-MM-DD: the date, or None when
\* the text has no such form (ValueError, swallowed by the caller)
FromIsoFormat(s) ==
    IF s # None /\ Len(s) = 10 /\ Char(s, 5) = "-" /\ Char(s, 8) = "-"
       /\ \A k \in {1, 2, 3, 4, 6, 7, 9, 10} : IsDigit(Char(s, k))
    THEN s ELSE None

\* class FallbackResult: the adapter from the fallback's dict to the result shape
FallbackResult(data) ==
    [summary        |-> data.summary,
     intent         |-> data.intent,
     priority_score |-> data.priority_score,
     tasks          |-> data.tasks,
     deadlines      |-> data.deadlines]

\* lines 56-97: the orchestrator, or the fallback processor when it raises
AnalysisResultOf(message, out, agent_ok) ==
    IF agent_ok THEN MessageAnalysisAgent_analyze(message, out)
    ELSE FallbackResult(basic_results[message])

\* lines 100-109: the MessageAnalysis row
AnalysisRow(message, ar) ==
    [message_id     |-> message.id,
     summary        |-> ar.summary,
     intent         |-> ar.intent,
     priority_score |-> ar.priority_score,
     is_spam        |-> GetAttr(ar, "is_spam", FALSE),
     spam_score     |-> GetAttr(ar, "spam_score", 0),
     spam_type      |-> GetAttr(ar, "spam_type", "none"),
     unsubscribe_link |-> GetAttr(ar, "unsubscribe_link", None)]

\* lines 113-142: the ActionableItem rows, tasks first, then deadlines
ActionableRows(message, ar) ==
    [k \in 1..Len(ar.tasks) |->
        [message_id |-> message.id, user_id |-> message.user_id, type |-> ar.tasks[k].type,
         description |-> ar.tasks[k].description, deadline |-> None, completed |-> FALSE]]
    \o
    [k \in 1..Len(ar.deadlines) |->
        [message_id |-> message.id, user_id |-> message.user_id, type |-> "deadline",
         description |-> ar.deadlines[k].description,
         deadline |-> IF ar.deadlines[k].date # None THEN FromIsoFormat(ar.deadlines[k].date) ELSE None,
         completed |-> FALSE]]

\* lines 177-188: the MessageAnalysis schema handed back
AnalysisSchema(message, ar) ==
    [message_id     |-> message.id,
     summary        |-> ar.summary,
     intent         |-> ar.intent,
     priority_score |-> ar.priority_score,
     is_spam        |-> GetAttr(ar, "is_spam", FALSE),
     spam_score     |-> GetAttr(ar, "spam_score", 0),
     spam_type      |-> GetAttr(ar, "spam_type", "none"),
     unsubscribe_link |-> GetAttr(ar, "unsubscribe_link", None),
     tasks          |-> [k \in 1..Len(ar.tasks) |->
                            [type |-> ar.tasks[k].type, description |-> ar.tasks[k].description,
                             deadline |-> ar.tasks[k].deadline]],
     deadlines      |-> [k \in 1..Len(ar.deadlines) |->
                            [description |-> ar.deadlines[k].description, date |-> ar.deadlines[k].date]]]

\* schemas/message.py: Field(ge=0.0, le=1.0) on priority_score and spam_score
SchemaValid(schema) ==
    /\ ~FloatLess(schema.priority_score, 0) /\ ~FloatLess(100, schema.priority_score)
    /\ schema.priority_score # NaN
    /\ ~FloatLess(schema.spam_score, 0) /\ ~FloatLess(100, schema.spam_score)
    /\ schema.spam_score # NaN

no_reply_patterns ==
    <<"no-reply", "noreply", "no_reply", "donotreply", "do-not-reply", "do_not_reply",
      "notifications", "automated", "mailer-daemon", "postmaster">>

\* a variant that forgets sender.lower()
_is_replyable_sender_cased(sender) ==
    IF sender = "" THEN FALSE
    ELSE ~AnyIn(no_reply_patterns, sender)

_is_replyable_sender(sender) ==
    IF sender = "" THEN FALSE
    ELSE ~AnyIn(no_reply_patterns, Lower(sender))

\* lines 149-153
should_generate_replies(message, ar) ==
    /\ ~GetAttr(ar, "is_spam", FALSE)
    /\ FloatLess(30, ar.priority_score)
    /\ _is_replyable_sender(message.sender)

\* a variant for a table without the unique column
PersistWithoutUnique(q, op, m, ar, fallback, model_output, commit_ok) ==
    IF commit_ok
    THEN /\ message_analysis' = Append(message_analysis, AnalysisRow(messages[m], ar))
         /\ actionable_items' = actionable_items \o ActionableRows(messages[m], ar)
         /\ pc' = [pc EXCEPT ![q] = "suggest"]
         /\ call' = [call EXCEPT ![q] = [op |-> op, message |-> m, analysis_result |-> ar,
                                         fallback |-> fallback, model_output |-> model_output,
                                         suggest |-> "not yet"]]
         /\ reanalyses' = IF op = "reanalyze_message"
                          THEN [reanalyses EXCEPT ![m] = @ + 1] ELSE reanalyses
         /\ UNCHANGED result
    ELSE /\ pc' = [pc EXCEPT ![q] = "done"]
         /\ call' = [call EXCEPT ![q] = [op |-> op, message |-> m]]
         /\ result' = [result EXCEPT ![q] =
                [op |-> op, outcome |-> "raised", error |-> "OperationalError"]]
         /\ UNCHANGED << message_analysis, actionable_items, reanalyses >>

\* a variant that goes on to the reply suggestions when its commit failed
PersistUncommitted(q, op, m, ar, fallback, model_output, commit_ok) ==
    /\ IF commit_ok /\ \A k \in 1..Len(message_analysis) : message_analysis[k].message_id # m
       THEN /\ message_analysis' = Append(message_analysis, AnalysisRow(messages[m], ar))
            /\ actionable_items' = actionable_items \o ActionableRows(messages[m], ar)
            /\ reanalyses' = IF op = "reanalyze_message"
                             THEN [reanalyses EXCEPT ![m] = @ + 1] ELSE reanalyses
       ELSE UNCHANGED << message_analysis, actionable_items, reanalyses >>
    /\ pc' = [pc EXCEPT ![q] = "suggest"]
    /\ call' = [call EXCEPT ![q] = [op |-> op, message |-> m, analysis_result |-> ar,
                                    fallback |-> fallback, model_output |-> model_output,
                                    suggest |-> "not yet"]]
    /\ UNCHANGED result

\* analyze_message, lines 99-146: add the rows of the result `ar` and commit.
\* The commit fails when the database does (commit_ok = FALSE) or when
\* message_id already has a row (the unique column); nothing of the
\* transaction is then stored and the exception leaves the handler.
Persist(q, op, m, ar, fallback, model_output, commit_ok) ==
    IF commit_ok /\ \A k \in 1..Len(message_analysis) : message_analysis[k].message_id # m
    THEN /\ message_analysis' = Append(message_analysis, AnalysisRow(messages[m], ar))
         /\ actionable_items' = actionable_items \o ActionableRows(messages[m], ar)
         /\ pc' = [pc EXCEPT ![q] = "suggest"]
         /\ call' = [call EXCEPT ![q] = [op |-> op, message |-> m, analysis_result |-> ar,
                                         fallback |-> fallback, model_output |-> model_output,
                                         suggest |-> "not yet"]]
         /\ reanalyses' = IF op = "reanalyze_message"
                          THEN [reanalyses EXCEPT ![m] = @ + 1] ELSE reanalyses
         /\ UNCHANGED result
    ELSE /\ pc' = [pc EXCEPT ![q] = "done"]
         /\ call' = [call EXCEPT ![q] = [op |-> op, message |-> m]]
         /\ result' = [result EXCEPT ![q] =
                [op |-> op, outcome |-> "raised",
                 error |-> IF commit_ok THEN "IntegrityError" ELSE "OperationalError"]]
         /\ UNCHANGED << message_analysis, actionable_items, reanalyses >>

\* analyze_message(message), up to the commit of line 145; called by the
\* message pipeline (pc = "idle") or by reanalyze_message (pc = "analyze")
AnalyzeMessage(q, m, out, agent_ok, commit_ok) ==
    /\ \/ pc[q] = "idle"
       \/ pc[q] = "analyze" /\ call[q].message = m
    /\ m \in DOMAIN messages
    /\ Len(smart_replies) + 3 <= MaxReplies
    /\ Persist(q, IF pc[q] = "idle" THEN "analyze_message" ELSE call[q].op, m,
               AnalysisResultOf(messages[m], out, agent_ok), ~agent_ok,
               IF agent_ok THEN out ELSE None, commit_ok)
    /\ UNCHANGED << messages, connections, smart_replies, user_persona, embeddings, outbox >>

\* a variant that deletes the analysis row and leaves the items
ReanalyzeMessageKeepingItems(q, m, delete_ok) ==
    /\ pc[q] = "idle"
    /\ m \in DOMAIN messages
    /\ Len(smart_replies) + 3 <= MaxReplies
    /\ reanalyses[m] < MaxReanalyses
    /\ call' = [call EXCEPT ![q] = [op |-> "reanalyze_message", message |-> m,
                                    prior |-> [message_analysis |-> message_analysis,
                                               actionable_items |-> actionable_items]]]
    /\ IF delete_ok
       THEN LET Other(row) == row.message_id # m
            IN  /\ message_analysis' = SelectRows(message_analysis, Other)
                /\ pc' = [pc EXCEPT ![q] = "analyze"]
                /\ UNCHANGED << actionable_items, result >>
       ELSE /\ pc' = [pc EXCEPT ![q] = "done"]
            /\ result' = [result EXCEPT ![q] =
                   [op |-> "reanalyze_message", outcome |-> "raised", error |-> "OperationalError"]]
            /\ UNCHANGED << message_analysis, actionable_items >>
    /\ UNCHANGED << messages, connections, reanalyses, smart_replies, user_persona, embeddings, outbox >>

\* reanalyze_message(message), lines 265-288: delete the analysis and the items
\* of the message, commit, then call analyze_message.  A failing commit leaves
\* the handler with nothing changed.
\* `prior` records the two tables as the call found them.
ReanalyzeMessage(q, m, delete_ok) ==
    /\ pc[q] = "idle"
    /\ m \in DOMAIN messages
    /\ Len(smart_replies) + 3 <= MaxReplies
    /\ reanalyses[m] < MaxReanalyses
    /\ call' = [call EXCEPT ![q] = [op |-> "reanalyze_message", message |-> m,
                                    prior |-> [message_analysis |-> message_analysis,
                                               actionable_items |-> actionable_items]]]
    /\ IF delete_ok
       THEN LET Other(row) == row.message_id # m
            IN  /\ message_analysis' = SelectRows(message_analysis, Other)
                /\ actionable_items' = SelectRows(actionable_items, Other)
                /\ pc' = [pc EXCEPT ![q] = "analyze"]
                /\ UNCHANGED result
       ELSE /\ pc' = [pc EXCEPT ![q] = "done"]
            /\ result' = [result EXCEPT ![q] =
                   [op |-> "reanalyze_message", outcome |-> "raised", error |-> "OperationalError"]]
            /\ UNCHANGED << message_analysis, actionable_items >>
    /\ UNCHANGED << messages, connections, reanalyses, smart_replies, user_persona, embeddings, outbox >>

\* _generate_reply_suggestions: the rows stored for the model's reply text
SuggestionRows(message, text) ==
    LET suggestions == reply_lists[text]
    IN  [k \in 1..Len(suggestions) |->
            [message_id |-> message.id, user_id |-> message.user_id,
             draft_content |-> suggestions[k].text, status |-> "suggestion",
             reviewed_at |-> None, sent_at |-> None]]

\* a variant whose failing suggestion generation leaves the handler
SuggestStepRaising(q, reply, commit_ok) ==
    /\ pc[q] = "suggest"
    /\ LET message == messages[call[q].message]
           wanted  == should_generate_replies(message, call[q].analysis_result)
           failed  == wanted /\ ~(reply.ok /\ commit_ok)
       IN  /\ smart_replies' =
                  IF wanted /\ ~failed
                  THEN smart_replies \o SuggestionRows(message, reply.text)
                  ELSE smart_replies
           /\ call' = [call EXCEPT ![q].suggest = IF wanted THEN "invoked" ELSE "skipped"]
           /\ pc' = [pc EXCEPT ![q] = IF failed THEN "done" ELSE "embed"]
           /\ result' = IF failed
                        THEN [result EXCEPT ![q] =
                                 [op |-> call[q].op, outcome |-> "raised", error |-> "Exception"]]
                        ELSE result
    /\ UNCHANGED << messages, connections, reanalyses, message_analysis, actionable_items,
                    user_persona, embeddings, outbox >>

\* a variant that keeps the message being analysed in an attribute of the
\* service, which the last call to commit its analysis overwrites
SuggestStepSharedMessage(q, reply, commit_ok) ==
    /\ pc[q] = "suggest"
    /\ LET message == messages[message_analysis[Len(message_analysis)].message_id]
           wanted  == should_generate_replies(message, call[q].analysis_result)
       IN  /\ smart_replies' =
                  IF wanted /\ reply.ok /\ commit_ok
                  THEN smart_replies \o SuggestionRows(message, reply.text)
                  ELSE smart_replies
           /\ call' = [call EXCEPT ![q].suggest = IF wanted THEN "invoked" ELSE "skipped"]
    /\ pc' = [pc EXCEPT ![q] = "embed"]
    /\ UNCHANGED << messages, connections, reanalyses, message_analysis, actionable_items,
                    user_persona, embeddings, outbox, result >>

\* analyze_message, lines 148-160: the conditional reply suggestions.  Whatever
\* _generate_reply_suggestions meets (the model call raising, the commit
\* failing) is swallowed.
SuggestStep(q, reply, commit_ok) ==
    /\ pc[q] = "suggest"
    /\ LET message == messages[call[q].message]
           wanted  == should_generate_replies(message, call[q].analysis_result)
       IN  /\ smart_replies' =
                  IF wanted /\ reply.ok /\ commit_ok
                  THEN smart_replies \o SuggestionRows(message, reply.text)
                  ELSE smart_replies
           /\ call' = [call EXCEPT ![q].suggest = IF wanted THEN "invoked" ELSE "skipped"]
    /\ pc' = [pc EXCEPT ![q] = "embed"]
    /\ UNCHANGED << messages, connections, reanalyses, message_analysis, actionable_items,
                    user_persona, embeddings, outbox, result >>

\* a variant whose embedding failure leaves the handler
EmbedStepRaising(q, embed_ok) ==
    /\ pc[q] = "embed"
    /\ LET message == messages[call[q].message]
           schema  == AnalysisSchema(message, call[q].analysis_result)
       IN  /\ embeddings' =
                  IF embed_ok
                  THEN {p \in embeddings : p.message_id # message.id}
                           \cup {[message_id |-> message.id, user_id |-> message.user_id]}
                  ELSE embeddings
           /\ result' = [result EXCEPT ![q] =
                  IF embed_ok /\ SchemaValid(schema)
                  THEN [op |-> call[q].op, outcome |-> "returned", value |-> schema]
                  ELSE [op |-> call[q].op, outcome |-> "raised",
                        error |-> IF embed_ok THEN "ValidationError" ELSE "EmbeddingError"]]
    /\ pc' = [pc EXCEPT ![q] = "done"]
    /\ UNCHANGED << messages, connections, reanalyses, message_analysis, actionable_items, smart_replies,
                    user_persona, outbox, call >>

\* analyze_message, lines 162-188: the embedding upsert, whose failure is
\* swallowed, and the schema handed back (pydantic validates its fields)
EmbedStep(q, embed_ok) ==
    /\ pc[q] = "embed"
    /\ LET message == messages[call[q].message]
           schema  == AnalysisSchema(message, call[q].analysis_result)
       IN  /\ embeddings' =
                  IF embed_ok
                  THEN {p \in embeddings : p.message_id # message.id}
                           \cup {[message_id |-> message.id, user_id |-> message.user_id]}
                  ELSE embeddings
           /\ result' = [result EXCEPT ![q] =
                  IF SchemaValid(schema)
                  THEN [op |-> call[q].op, outcome |-> "returned", value |-> schema]
                  ELSE [op |-> call[q].op, outcome |-> "raised", error |-> "ValidationError"]]
    /\ pc' = [pc EXCEPT ![q] = "done"]
    /\ UNCHANGED << messages, connections, reanalyses, message_analysis, actionable_items, smart_replies,
                    user_persona, outbox, call >>

\* QdrantManager.delete_message_embedding: True, or False when the client raises
delete_message_embedding(store, m, qdrant_ok) ==
    IF qdrant_ok
    THEN [points |-> {p \in store : p.message_id # m}, ok |-> TRUE]
    ELSE [points |-> store, ok |-> FALSE]

\* QdrantManager.delete_user_embeddings: True, or False when the client raises
delete_user_embeddings(store, u, qdrant_ok) ==
    IF qdrant_ok
    THEN [points |-> {p \in store : p.user_id # u}, ok |-> TRUE]
    ELSE [points |-> store, ok |-> FALSE]

\* delete_message_data(message_id)
DeleteMessageData(q, m, db_ok, qdrant_ok) ==
    /\ pc[q] = "idle"
    /\ LET Other(row) == row.message_id # m
           deleted    == delete_message_embedding(embeddings, m, qdrant_ok)
       IN  IF db_ok
           THEN /\ message_analysis' = SelectRows(message_analysis, Other)
                /\ actionable_items' = SelectRows(actionable_items, Other)
                /\ embeddings' = deleted.points
                /\ result' = [result EXCEPT ![q] =
                       [op |-> "delete_message_data", outcome |-> "returned", value |-> TRUE]]
           ELSE /\ UNCHANGED << message_analysis, actionable_items, embeddings >>
                /\ result' = [result EXCEPT ![q] =
                       [op |-> "delete_message_data", outcome |-> "returned", value |-> FALSE]]
    /\ pc' = [pc EXCEPT ![q] = "done"]
    /\ call' = [call EXCEPT ![q] = [op |-> "delete_message_data", message |-> m,
                                    db_ok |-> db_ok, qdrant_ok |-> qdrant_ok]]
    /\ UNCHANGED << messages, connections, reanalyses, smart_replies, user_persona, outbox >>

\* delete_user_data(user_id)
DeleteUserData(q, u, db_ok, qdrant_ok) ==
    /\ pc[q] = "idle"
    /\ LET Other(row) == row.user_id # u
           deleted    == delete_user_embeddings(embeddings, u, qdrant_ok)
       IN  IF db_ok
           THEN /\ actionable_items' = SelectRows(actionable_items, Other)
                /\ embeddings' = deleted.points
                /\ result' = [result EXCEPT ![q] =
                       [op |-> "delete_user_data", outcome |-> "returned", value |-> TRUE]]
           ELSE /\ UNCHANGED << actionable_items, embeddings >>
                /\ result' = [result EXCEPT ![q] =
                       [op |-> "delete_user_data", outcome |-> "returned", value |-> FALSE]]
    /\ pc' = [pc EXCEPT ![q] = "done"]
    /\ call' = [call EXCEPT ![q] = [op |-> "delete_user_data", user |-> u,
                                    db_ok |-> db_ok, qdrant_ok |-> qdrant_ok]]
    /\ UNCHANGED << messages, connections, reanalyses, message_analysis, smart_replies, user_persona, outbox >>

\* the caller takes the handler's result; the request is over
Return(q) ==
    /\ pc[q] = "done"
    /\ pc' = [pc EXCEPT ![q] = "idle"]
    /\ call' = [call EXCEPT ![q] = NoCall]
    /\ result' = [result EXCEPT ![q] = NoResult]
    /\ UNCHANGED << messages, connections, reanalyses, stores >>

(***************************************************************************)
(* SmartReplyService (app/services/reply.py) behind its endpoints          *)
(* (app/api/replies.py).  A reply's id is its position in smart_replies.   *)
(***************************************************************************)
\* datetime.utcnow(), as far as the model tells times apart: set or not set
utcnow == "utcnow"

\* api/replies.py: the endpoint answers a ValueError with 404 and the error's
\* text, any other exception with 500
Raise(op, error, text) ==
    [op |-> op, outcome |-> "raised", error |-> error, text |-> text,
     http |-> IF error = "ValueError" THEN 404 ELSE 500]

Returned(op, value) == [op |-> op, outcome |-> "returned", value |-> value]

\* SmartReplySchema.model_validate(reply)
SmartReplySchema(replies, reply_id) == [id |-> reply_id] @@ replies[reply_id]

\* generate_smart_reply, lines 123-130: the text of the ValueError raised for
\* the message asked for, or None when it is there and the user's
generate_lookup(msgs, m, u) ==
    IF m \notin DOMAIN msgs THEN "Message " \o m \o " not found"
    ELSE IF msgs[m].user_id # u THEN "Message does not belong to user"
    ELSE None

\* fetch_thread_context: the messages of the thread of m, oldest first (those
\* with its thread_id, whoever owns them), or m alone when it has no thread
fetch_thread_context(msgs, m) ==
    LET ids == IF msgs[m].thread_id # None
               THEN {x \in DOMAIN msgs : msgs[x].thread_id = msgs[m].thread_id}
               ELSE {m}
    IN  CHOOSE seq \in [1..Cardinality(ids) -> ids] :
            \A i, j \in 1..Cardinality(ids) : i < j => msgs[seq[i]].timestamp < msgs[seq[j]].timestamp

\* _format_for_platform: every branch hands the draft back as it is
_format_for_platform(draft, platform, original_message) == draft

\* SmartReplyDeepAgent.generate_reply, lines 135-138: the config the agent is
\* invoked under; its thread_id is all that scopes the agent's memory
AgentConfig(user_id) == [configurable |-> [thread_id |-> "reply_" \o user_id]]

\* generate_smart_reply(message_id, user_id); `draft` is the generation agent's
\* answer, or its call raising
GenerateSmartReply(q, m, u, draft, commit_ok) ==
    /\ pc[q] = "idle"
    /\ Len(smart_replies) + 1 <= MaxReplies
    /\ LET error == generate_lookup(messages, m, u)
           row   == [message_id |-> m, user_id |-> u,
                     draft_content |-> _format_for_platform(draft.text, messages[m].platform, messages[m]),
                     status |-> "pending", reviewed_at |-> None, sent_at |-> None]
       IN  IF error # None
           THEN /\ result' = [result EXCEPT ![q] = Raise("generate_smart_reply", "ValueError", error)]
                /\ call' = [call EXCEPT ![q] = [op |-> "generate_smart_reply", message |-> m, user |-> u]]
                /\ UNCHANGED smart_replies
           ELSE /\ call' = [call EXCEPT ![q] = [op |-> "generate_smart_reply", message |-> m, user |-> u,
                                                thread_context |-> fetch_thread_context(messages, m),
                                                config |-> AgentConfig(u)]]
                /\ IF draft.ok /\ commit_ok
                   THEN /\ smart_replies' = Append(smart_replies, row)
                        /\ result' = [result EXCEPT ![q] =
                               Returned("generate_smart_reply", [id |-> Len(smart_replies) + 1] @@ row)]
                   ELSE /\ result' = [result EXCEPT ![q] =
                               Raise("generate_smart_reply",
                                     IF draft.ok THEN "OperationalError" ELSE "Exception", "")]
                        /\ UNCHANGED smart_replies
    /\ pc' = [pc EXCEPT ![q] = "done"]
    /\ UNCHANGED << messages, connections, reanalyses, message_analysis, actionable_items,
                    user_persona, embeddings, outbox >>

\* use_suggestion (api/replies.py lines 187-225): a suggestion of the user
\* becomes a pending draft
UseSuggestion(q, r, u, commit_ok) ==
    /\ pc[q] = "idle"
    /\ call' = [call EXCEPT ![q] = [op |-> "use_suggestion", reply |-> r, user |-> u]]
    /\ IF r \in 1..Len(smart_replies) /\ smart_replies[r].user_id = u
          /\ smart_replies[r].status = "suggestion"
       THEN IF commit_ok
            THEN /\ smart_replies' = [smart_replies EXCEPT ![r].status = "pending"]
                 /\ result' = [result EXCEPT ![q] =
                        Returned("use_suggestion", [id |-> r, status |-> "pending"])]
            ELSE /\ result' = [result EXCEPT ![q] = Raise("use_suggestion", "OperationalError", "")]
                 /\ UNCHANGED smart_replies
       ELSE /\ result' = [result EXCEPT ![q] =
                   [op |-> "use_suggestion", outcome |-> "raised", error |-> "HTTPException",
                    text |-> "Suggestion not found", http |-> 404]]
            /\ UNCHANGED smart_replies
    /\ pc' = [pc EXCEPT ![q] = "done"]
    /\ UNCHANGED << messages, connections, reanalyses, message_analysis, actionable_items,
                    user_persona, embeddings, outbox >>

\* a variant of the query that does not filter by user
PendingReplyOfAnyone(replies, r, u) ==
    r \in 1..Len(replies) /\ replies[r].status = "pending"

\* the query of approve_reply, edit_reply and reject_reply: the reply of that
\* id, of that user, in status pending
PendingReply(replies, r, u) ==
    r \in 1..Len(replies) /\ replies[r].user_id = u /\ replies[r].status = "pending"

\* the text of the ValueError of a reply not found by that query, or None
reply_lookup(replies, r, u) ==
    IF PendingReply(replies, r, u) THEN None ELSE "Reply not found or not pending"

\* approve_reply(reply_id, user_id), lines 263-276: the reply and its message
\* are loaded; the handler then awaits the platform send
ApproveReply(q, r, u) ==
    /\ pc[q] = "idle"
    /\ Len(outbox) < MaxOutbox
    /\ LET error == reply_lookup(smart_replies, r, u)
       IN  IF error # None
           THEN /\ result' = [result EXCEPT ![q] = Raise("approve_reply", "ValueError", error)]
                /\ call' = [call EXCEPT ![q] = [op |-> "approve_reply", reply |-> r, user |-> u]]
                /\ pc' = [pc EXCEPT ![q] = "done"]
           ELSE IF smart_replies[r].message_id \notin DOMAIN messages
           THEN /\ result' = [result EXCEPT ![q] =
                       Raise("approve_reply", "ValueError", "Original message not found")]
                /\ call' = [call EXCEPT ![q] = [op |-> "approve_reply", reply |-> r, user |-> u]]
                /\ pc' = [pc EXCEPT ![q] = "done"]
           ELSE /\ call' = [call EXCEPT ![q] =
                       [op |-> "approve_reply", reply |-> r, user |-> u,
                        message |-> smart_replies[r].message_id,
                        draft_content |-> smart_replies[r].draft_content]]
                /\ pc' = [pc EXCEPT ![q] = "send"]
                /\ UNCHANGED result
    /\ UNCHANGED << messages, connections, reanalyses, stores >>

\* _send_reply, lines 412-421: what the adapter is handed
OutgoingMessage(original_message, reply_content) ==
    [recipient |-> original_message.sender,
     content   |-> reply_content,
     subject   |-> IF original_message.subject # None /\ original_message.subject # ""
                   THEN IF StartsWith(original_message.subject, "Re:")
                        THEN original_message.subject
                        ELSE "Re: " \o original_message.subject
                   ELSE None,
     thread_id |-> original_message.thread_id,
     reply_to_message_id |-> original_message.platform_message_id]

\* a variant that leaves the reply's status as it finds it
SendFailedKeepingStatus(q, replies, recover_ok) ==
    IF recover_ok
    THEN /\ smart_replies' = [replies EXCEPT ![call[q].reply].reviewed_at = utcnow]
         /\ result' = [result EXCEPT ![q] = Raise("approve_reply", "Exception", "Failed to send reply")]
    ELSE /\ smart_replies' = replies
         /\ result' = [result EXCEPT ![q] = Raise("approve_reply", "OperationalError", "")]

\* approve_reply's except branch, lines 303-309: the reply is stored approved
\* and the failure raised again; when that commit fails too, its error leaves
\* the handler and the row stays as last committed
SendFailed(q, replies, recover_ok) ==
    IF recover_ok
    THEN /\ smart_replies' = [replies EXCEPT ![call[q].reply].status = "approved",
                                             ![call[q].reply].reviewed_at = utcnow]
         /\ result' = [result EXCEPT ![q] = Raise("approve_reply", "Exception", "Failed to send reply")]
    ELSE /\ smart_replies' = replies
         /\ result' = [result EXCEPT ![q] = Raise("approve_reply", "OperationalError", "")]

\* approve_reply, lines 279-287: _send_reply (which raises without a platform
\* connection and when the adapter does not report success), then the commit
\* of status sent
SendStep(q, send_ok, commit_ok, recover_ok) ==
    /\ pc[q] = "send"
    /\ LET message   == messages[call[q].message]
           delivered == << call[q].user, message.platform >> \in DOMAIN connections /\ send_ok
       IN  /\ outbox' = IF delivered
                        THEN Append(outbox, OutgoingMessage(message, call[q].draft_content))
                        ELSE outbox
           /\ call' = [call EXCEPT ![q] = [delivered |-> delivered] @@ @]
           /\ IF delivered /\ commit_ok
              THEN /\ smart_replies' = [smart_replies EXCEPT ![call[q].reply].status = "sent",
                                                             ![call[q].reply].reviewed_at = utcnow,
                                                             ![call[q].reply].sent_at = utcnow]
                   /\ pc' = [pc EXCEPT ![q] = "record"]
                   /\ UNCHANGED result
              ELSE /\ SendFailed(q, smart_replies, recover_ok)
                   /\ pc' = [pc EXCEPT ![q] = "done"]
    /\ UNCHANGED << messages, connections, reanalyses, message_analysis, actionable_items,
                    user_persona, embeddings >>

\* approve_reply, lines 289-301: record_interaction, inside the same try.
\* PersonaStore.store_observation commits a UserPersona row and then writes the
\* aggregated memory; either can raise (persona is "ok", "commit_failed" or
\* "put_failed"), and the except branch above then runs.
RecordStep(q, persona, recover_ok) ==
    /\ pc[q] = "record"
    /\ LET message == messages[call[q].message]
       IN  user_persona' =
               IF persona = "commit_failed" THEN user_persona
               ELSE Append(user_persona,
                           [user_id |-> call[q].user, observation_type |-> "reply_sent",
                            platform |-> message.platform, recipient |-> message.sender,
                            content_length |-> Len(call[q].draft_content)])
    /\ IF persona = "ok"
       THEN /\ result' = [result EXCEPT ![q] =
                   Returned("approve_reply", SmartReplySchema(smart_replies, call[q].reply))]
            /\ UNCHANGED smart_replies
       ELSE SendFailed(q, smart_replies, recover_ok)
    /\ pc' = [pc EXCEPT ![q] = "done"]
    /\ UNCHANGED << messages, connections, reanalyses, message_analysis, actionable_items,
                    embeddings, outbox, call >>

\* edit_reply(reply_id, user_id, new_content)
EditReply(q, r, u, new_content, commit_ok) ==
    /\ pc[q] = "idle"
    /\ call' = [call EXCEPT ![q] = [op |-> "edit_reply", reply |-> r, user |-> u,
                                    new_content |-> new_content]]
    /\ LET error == reply_lookup(smart_replies, r, u)
           edited == [smart_replies EXCEPT ![r].draft_content = new_content, ![r].reviewed_at = utcnow]
       IN  IF error # None
           THEN /\ result' = [result EXCEPT ![q] = Raise("edit_reply", "ValueError", error)]
                /\ UNCHANGED smart_replies
           ELSE IF commit_ok
           THEN /\ smart_replies' = edited
                /\ result' = [result EXCEPT ![q] = Returned("edit_reply", SmartReplySchema(edited, r))]
           ELSE /\ result' = [result EXCEPT ![q] = Raise("edit_reply", "OperationalError", "")]
                /\ UNCHANGED smart_replies
    /\ pc' = [pc EXCEPT ![q] = "done"]
    /\ UNCHANGED << messages, connections, reanalyses, message_analysis, actionable_items,
                    user_persona, embeddings, outbox >>

\* reject_reply(reply_id, user_id)
RejectReply(q, r, u, commit_ok) ==
    /\ pc[q] = "idle"
    /\ call' = [call EXCEPT ![q] = [op |-> "reject_reply", reply |-> r, user |-> u]]
    /\ LET error == reply_lookup(smart_replies, r, u)
           rejected == [smart_replies EXCEPT ![r].status = "rejected", ![r].reviewed_at = utcnow]
       IN  IF error # None
           THEN /\ result' = [result EXCEPT ![q] = Raise("reject_reply", "ValueError", error)]
                /\ UNCHANGED smart_replies
           ELSE IF commit_ok
           THEN /\ smart_replies' = rejected
                /\ result' = [result EXCEPT ![q] = Returned("reject_reply", SmartReplySchema(rejected, r))]
           ELSE /\ result' = [result EXCEPT ![q] = Raise("reject_reply", "OperationalError", "")]
                /\ UNCHANGED smart_replies
    /\ pc' = [pc EXCEPT ![q] = "done"]
    /\ UNCHANGED << messages, connections, reanalyses, message_analysis, actionable_items,
                    user_persona, embeddings, outbox >>

(***************************************************************************)
(* PlatformService.refresh_platform_token (app/services/platform.py)       *)
(* under its decorator retry_with_exponential_backoff (app/utils/retry.py) *)
(***************************************************************************)
\* the first user's connections: gmail with a refresh token, slack without
InboxConnections ==
    [c \in {<<"u1", "gmail">>, <<"u1", "slack">>} |->
        [access_token |-> "a0", refresh_token |-> IF c[2] = "gmail" THEN "r0" ELSE None]]

Platforms == {"gmail", "slack", "calendar"}

\* the decorator's arguments at platform.py 175-179 and its defaults
max_retries == 3

base_delay == 1

max_delay == 60

exponential_base == 2

RetryExceptions == {"PlatformAPIError", "ConnectionError", "TimeoutError"}

\* what adapter.refresh_token gives: a connection with a new access token
\* and perhaps a new refresh token, or an exception
AdapterOutcomes ==
    {[ok |-> TRUE, error |-> None, access_token |-> a, refresh_token |-> r] :
         a \in {"a1", "a2"}, r \in {None, "r1"}}
    \cup {[ok |-> FALSE, error |-> e, access_token |-> None, refresh_token |-> None] :
              e \in RetryExceptions \cup {"RefreshError"}}

\* calculate_exponential_backoff(attempt, ...), in seconds
calculate_exponential_backoff(attempt) ==
    LET delay == base_delay * (exponential_base ^ attempt)
    IN  IF delay < max_delay THEN delay ELSE max_delay

\* the decorated function, lines 193-236: the exception it raises (None when
\* it returns) and the connections it leaves.  The try block answers every
\* exception, the adapter's and the commit's, with an HTTPException.
refresh_platform_token(conns, user_id, platform, outcome, commit_ok) ==
    LET key == << user_id, platform >>
    IN  IF key \notin DOMAIN conns
        THEN [connections |-> conns, raised |-> "HTTPException", http |-> 404]
        ELSE IF conns[key].refresh_token = None
        THEN [connections |-> conns, raised |-> "HTTPException", http |-> 400]
        ELSE IF outcome.ok /\ commit_ok
        THEN [connections |->
                  [conns EXCEPT ![key].access_token = outcome.access_token,
                                ![key].refresh_token = IF outcome.refresh_token # None
                                                       THEN outcome.refresh_token ELSE @],
              raised |-> None, http |-> 200]
        ELSE [connections |-> conns, raised |-> "HTTPException", http |-> 500]

\* async_wrapper, retry.py 68-100: one pass of its loop.  An exception of the
\* decorator's `exceptions` is kept and, while attempts are left, the wrapper
\* sleeps and goes round again; any other exception leaves the wrapper at
\* once.
RefreshPlatformToken(q, u, platform, outcome, commit_ok) ==
    /\ \/ pc[q] = "idle"
       \/ pc[q] = "refresh" /\ call[q].user = u /\ call[q].platform = platform
    /\ LET attempt == IF pc[q] = "idle" THEN 0 ELSE call[q].attempts
           delays  == IF pc[q] = "idle" THEN <<>> ELSE call[q].delays
           run     == refresh_platform_token(connections, u, platform, outcome, commit_ok)
           again   == run.raised \in RetryExceptions /\ attempt < max_retries
       IN  /\ connections' = run.connections
           /\ call' = [call EXCEPT ![q] =
                  [op |-> "refresh_platform_token", user |-> u, platform |-> platform,
                   attempts |-> attempt + 1, adapter |-> outcome,
                   delays |-> IF again THEN Append(delays, calculate_exponential_backoff(attempt))
                              ELSE delays]]
           /\ pc' = [pc EXCEPT ![q] = IF again THEN "refresh" ELSE "done"]
           /\ result' = [result EXCEPT ![q] =
                  IF again THEN NoResult
                  ELSE IF run.raised = None THEN Returned("refresh_platform_token", None)
                  ELSE [op |-> "refresh_platform_token", outcome |-> "raised",
                        error |-> run.raised, http |-> run.http]]
    /\ UNCHANGED << messages, reanalyses, stores >>

InitRefresh ==
    /\ messages = [m \in {} |-> None]
    /\ connections = InboxConnections
    /\ message_analysis = <<>>
    /\ actionable_items = <<>>
    /\ smart_replies = <<>>
    /\ user_persona = <<>>
    /\ embeddings = {}
    /\ outbox = <<>>
    /\ reanalyses = [m \in {} |-> 0]
    /\ pc = [q \in {1} |-> "idle"]
    /\ call = [q \in {1} |-> NoCall]
    /\ result = [q \in {1} |-> NoResult]

NextRefresh ==
    \/ \E q \in Requests, u \in Users, platform \in Platforms,
          outcome \in AdapterOutcomes, commit_ok \in BOOLEAN :
           RefreshPlatformToken(q, u, platform, outcome, commit_ok)
    \/ \E q \in Requests : Return(q)

SpecRefresh == InitRefresh /\ [][NextRefresh]_vars

(***************************************************************************)
(* The inbox: analysis, re-analysis and deletion over two users' messages  *)
(***************************************************************************)
Init ==
    /\ messages = InboxMessages
    /\ connections = InboxConnections
    /\ message_analysis = <<>>
    /\ actionable_items = <<>>
    /\ smart_replies = <<>>
    /\ user_persona = <<>>
    /\ embeddings = {}
    /\ outbox = <<>>
    /\ reanalyses = [m \in DOMAIN InboxMessages |-> 0]
    /\ pc = [q \in {1} |-> "idle"]
    /\ call = [q \in {1} |-> NoCall]
    /\ result = [q \in {1} |-> NoResult]

Next ==
    \/ \E q \in Requests, m \in DOMAIN messages, out \in InboxOutputs,
          agent_ok \in BOOLEAN, commit_ok \in BOOLEAN :
           AnalyzeMessage(q, m, out, agent_ok, commit_ok)
    \/ \E q \in Requests, m \in DOMAIN messages, delete_ok \in BOOLEAN :
           ReanalyzeMessage(q, m, delete_ok)
    \/ \E q \in Requests, reply \in InboxReplies, commit_ok \in BOOLEAN :
           SuggestStep(q, reply, commit_ok)
    \/ \E q \in Requests, embed_ok \in BOOLEAN : EmbedStep(q, embed_ok)
    \/ \E q \in Requests, m \in DOMAIN messages \cup {"m9"}, db_ok \in BOOLEAN, qdrant_ok \in BOOLEAN :
           DeleteMessageData(q, m, db_ok, qdrant_ok)
    \/ \E q \in Requests, u \in Users, db_ok \in BOOLEAN, qdrant_ok \in BOOLEAN :
           DeleteUserData(q, u, db_ok, qdrant_ok)
    \/ \E q \in Requests : Return(q)

Spec == Init /\ [][Next]_vars

(***************************************************************************)
(* One message analysed: every sender, content and model output of the     *)
(* sets above                                                              *)
(***************************************************************************)
InitWide ==
    /\ \E message \in WideMessages : messages = [m \in {"m1"} |-> message]
    /\ connections = InboxConnections
    /\ message_analysis = <<>>
    /\ actionable_items = <<>>
    /\ smart_replies = <<>>
    /\ user_persona = <<>>
    /\ embeddings = {}
    /\ outbox = <<>>
    /\ reanalyses = [m \in {"m1"} |-> 0]
    /\ pc = [q \in {1} |-> "idle"]
    /\ call = [q \in {1} |-> NoCall]
    /\ result = [q \in {1} |-> NoResult]

NextWide ==
    \/ \E q \in Requests, m \in DOMAIN messages, out \in WideOutputs,
          agent_ok \in BOOLEAN, commit_ok \in BOOLEAN :
           AnalyzeMessage(q, m, out, agent_ok, commit_ok)
    \/ \E q \in Requests, reply \in InboxReplies, commit_ok \in BOOLEAN :
           SuggestStep(q, reply, commit_ok)
    \/ \E q \in Requests, embed_ok \in BOOLEAN : EmbedStep(q, embed_ok)
    \/ \E q \in Requests : Return(q)

SpecWide == InitWide /\ [][NextWide]_vars

(***************************************************************************)
(* The reply review workflow: suggestions and drafts for the two users'    *)
(* messages, used, edited, approved and rejected by either user            *)
(***************************************************************************)
\* the largest number of replies the review workflow is followed over
MaxDrafts == 1

Draft == Said("Sure, will do.")

NewContents == {"Edited."}

\* ids of replies that exist, and one that does not
ReplyIds == 1..(Len(smart_replies) + 1)

InitReply ==
    /\ messages = InboxMessages
    /\ connections = InboxConnections
    /\ message_analysis = <<>>
    /\ actionable_items = <<>>
    /\ smart_replies = <<>>
    /\ user_persona = <<>>
    /\ embeddings = {}
    /\ outbox = <<>>
    /\ reanalyses = [m \in DOMAIN InboxMessages |-> 0]
    /\ pc = [q \in {1} |-> "idle"]
    /\ call = [q \in {1} |-> NoCall]
    /\ result = [q \in {1} |-> NoResult]

NextReply ==
    \/ \E q \in Requests :
           /\ Len(smart_replies) < MaxDrafts
           /\ AnalyzeMessage(q, "m1", BaseOut, TRUE, TRUE)
    \/ \E q \in Requests : SuggestStep(q, OneReply, TRUE)
    \/ \E q \in Requests : EmbedStep(q, TRUE)
    \/ \E q \in Requests, m \in DOMAIN messages \cup {"m9"}, u \in Users,
          draft \in {Draft, Raised}, commit_ok \in BOOLEAN :
           /\ Len(smart_replies) < MaxDrafts
           /\ GenerateSmartReply(q, m, u, draft, commit_ok)
    \/ \E q \in Requests, r \in ReplyIds, u \in Users, commit_ok \in BOOLEAN :
           UseSuggestion(q, r, u, commit_ok)
    \/ \E q \in Requests, r \in ReplyIds, u \in Users : ApproveReply(q, r, u)
    \/ \E q \in Requests, send_ok \in BOOLEAN, commit_ok \in BOOLEAN, recover_ok \in BOOLEAN :
           SendStep(q, send_ok, commit_ok, recover_ok)
    \/ \E q \in Requests, persona \in {"ok", "commit_failed", "put_failed"}, recover_ok \in BOOLEAN :
           RecordStep(q, persona, recover_ok)
    \/ \E q \in Requests, r \in ReplyIds, u \in Users, new_content \in NewContents, commit_ok \in BOOLEAN :
           EditReply(q, r, u, new_content, commit_ok)
    \/ \E q \in Requests, r \in ReplyIds, u \in Users, commit_ok \in BOOLEAN :
           RejectReply(q, r, u, commit_ok)
    \/ \E q \in Requests : Return(q)

SpecReply == InitReply /\ [][NextReply]_vars

(***************************************************************************)
(* Two requests analysing the first user's messages at the same time: a    *)
(* handler runs up to its next await, where the other request's handler    *)
(* may run (each request has its own database session)                     *)
(***************************************************************************)
\* the ids of the messages of user u
MessagesOf(u) == {m \in DOMAIN messages : messages[m].user_id = u}

ConcurrentOutputs == {BaseOut, AllRaised}

InitConcurrent ==
    /\ messages = ThreadMessages
    /\ connections = InboxConnections
    /\ message_analysis = <<>>
    /\ actionable_items = <<>>
    /\ smart_replies = <<>>
    /\ user_persona = <<>>
    /\ embeddings = {}
    /\ outbox = <<>>
    /\ reanalyses = [m \in DOMAIN ThreadMessages |-> 0]
    /\ pc = [q \in {1, 2} |-> "idle"]
    /\ call = [q \in {1, 2} |-> NoCall]
    /\ result = [q \in {1, 2} |-> NoResult]

NextConcurrent ==
    \/ \E q \in Requests, m \in MessagesOf("u1"), out \in ConcurrentOutputs,
          agent_ok \in BOOLEAN, commit_ok \in BOOLEAN :
           AnalyzeMessage(q, m, out, agent_ok, commit_ok)
    \/ \E q \in Requests, reply \in InboxReplies, commit_ok \in BOOLEAN :
           SuggestStep(q, reply, commit_ok)
    \/ \E q \in Requests, embed_ok \in BOOLEAN : EmbedStep(q, embed_ok)
    \/ \E q \in Requests : Return(q)

SpecConcurrent == InitConcurrent /\ [][NextConcurrent]_vars

(***************************************************************************)
(* Two requests in the reply workflow at the same time: drafts generated   *)
(* for the three messages and approved, each handler running up to its     *)
(* next await.  The database, the agent and the platform never fail here:  *)
(* what is observed is the interleaving alone.                             *)
(***************************************************************************)
\* the largest number of drafts the two requests generate
MaxPending == 2

InitApprove ==
    /\ messages = ThreadMessages
    /\ connections = InboxConnections
    /\ message_analysis = <<>>
    /\ actionable_items = <<>>
    /\ smart_replies = <<>>
    /\ user_persona = <<>>
    /\ embeddings = {}
    /\ outbox = <<>>
    /\ reanalyses = [m \in DOMAIN ThreadMessages |-> 0]
    /\ pc = [q \in {1, 2} |-> "idle"]
    /\ call = [q \in {1, 2} |-> NoCall]
    /\ result = [q \in {1, 2} |-> NoResult]

NextApprove ==
    \/ \E q \in Requests, m \in DOMAIN messages, u \in Users :
           /\ Len(smart_replies) < MaxPending
           /\ GenerateSmartReply(q, m, u, Draft, TRUE)
    \/ \E q \in Requests, r \in ReplyIds, u \in Users : ApproveReply(q, r, u)
    \/ \E q \in Requests : SendStep(q, TRUE, TRUE, TRUE)
    \/ \E q \in Requests : RecordStep(q, "ok", TRUE)
    \/ \E q \in Requests : Return(q)

SpecApprove == InitApprove /\ [][NextApprove]_vars

(***************************************************************************)
(* The runners' parsers on their own: each is applied to the texts a model *)
(* may answer with (detect_spam also to a content and a metadata)          *)
(***************************************************************************)
\* contents with no link, with one link, and with links that several of the
\* patterns match
LinkContents ==
    {PromoContent,
     "See https://a.com/unsubscribe or <a href='https://a.com/opt-out'>here</a>",
     "Stop: HTTP://B.com/Unsubscribe/me now",
     "No links here.",
     "<a href=\"https://c.com/remove\">x</a> https://c.com/opt-out",
     "Visit https://d.com/opt-out."}

\* no header, a header with a mailto and a URL, a header with a mailto alone
LinkMetadatas ==
    {NoMetadata, ListUnsubscribe, [k \in {"list_unsubscribe"} |-> "<mailto:u@x.com>"]}

\* what the model may answer each parser with
RunnerTexts ==
    [spam      |-> SpamTexts \cup {"IS_SPAM: true\nSPAM_TYPE: newsletter",
                                   "SPAM_TYPE: Marketing\nIS_SPAM: true",
                                   "IS_SPAM: false\nSPAM_TYPE: promotional"},
     tasks     |-> {"NO_TASKS", "", " NO_TASKS \n", "NO_TASKS\ntask: x",
                    "task: buy milk\ninvalidline\ndeadline: file report",
                    "Meeting : sync at 10:30\n\n  TASK:a", "note: x\nno colon"},
     deadlines |-> {"NO_DEADLINES", "", "deadline: lower case",
                    "DEADLINE: file report | DATE: 2024-12-01\njunk\nDEADLINE: call Bob",
                    "DEADLINE: a | b | DATE: none", "DEADLINE: x | DATE:"},
     replies   |-> {ThreeReplies.text, OneReply.text, "", "Sorry, I cannot help.",
                    "REPLY_1: [defer] Later.\nREPLY_2: Fine.",
                    "REPLY_1: a\nREPLY_2: b\nREPLY_3: c\nREPLY_4: d",
                    "REPLY_1 no colon"}]

DetectSpam(q, text, content, metadata) ==
    /\ pc[q] = "idle"
    /\ call' = [call EXCEPT ![q] = [op |-> "detect_spam", text |-> text,
                                    content |-> content, metadata |-> metadata]]
    /\ result' = [result EXCEPT ![q] = Returned("detect_spam", detect_spam(text, content, metadata))]
    /\ pc' = [pc EXCEPT ![q] = "done"]
    /\ UNCHANGED << messages, connections, reanalyses, stores >>

ExtractTasks(q, text) ==
    /\ pc[q] = "idle"
    /\ call' = [call EXCEPT ![q] = [op |-> "extract_tasks", text |-> text]]
    /\ result' = [result EXCEPT ![q] = Returned("extract_tasks", extract_tasks(text))]
    /\ pc' = [pc EXCEPT ![q] = "done"]
    /\ UNCHANGED << messages, connections, reanalyses, stores >>

DetectDeadlines(q, text) ==
    /\ pc[q] = "idle"
    /\ call' = [call EXCEPT ![q] = [op |-> "detect_deadlines", text |-> text]]
    /\ result' = [result EXCEPT ![q] = Returned("detect_deadlines", detect_deadlines(text))]
    /\ pc' = [pc EXCEPT ![q] = "done"]
    /\ UNCHANGED << messages, connections, reanalyses, stores >>

GenerateSmartReplies(q, text) ==
    /\ pc[q] = "idle"
    /\ call' = [call EXCEPT ![q] = [op |-> "generate_smart_replies", text |-> text]]
    /\ result' = [result EXCEPT ![q] =
           Returned("generate_smart_replies", generate_smart_replies(text))]
    /\ pc' = [pc EXCEPT ![q] = "done"]
    /\ UNCHANGED << messages, connections, reanalyses, stores >>

InitRunners ==
    /\ messages = [m \in {} |-> None]
    /\ connections = [c \in {} |-> None]
    /\ message_analysis = <<>>
    /\ actionable_items = <<>>
    /\ smart_replies = <<>>
    /\ user_persona = <<>>
    /\ embeddings = {}
    /\ outbox = <<>>
    /\ reanalyses = [m \in {} |-> 0]
    /\ pc = [q \in {1} |-> "idle"]
    /\ call = [q \in {1} |-> NoCall]
    /\ result = [q \in {1} |-> NoResult]

NextRunners ==
    \/ \E q \in Requests, text \in RunnerTexts.spam, content \in LinkContents,
          metadata \in LinkMetadatas :
           DetectSpam(q, text, content, metadata)
    \/ \E q \in Requests, text \in RunnerTexts.tasks : ExtractTasks(q, text)
    \/ \E q \in Requests, text \in RunnerTexts.deadlines : DetectDeadlines(q, text)
    \/ \E q \in Requests, text \in RunnerTexts.replies : GenerateSmartReplies(q, text)
    \/ \E q \in Requests : Return(q)

SpecRunners == InitRunners /\ [][NextRunners]_vars

(***************************************************************************)
(* Properties                                                              *)
(***************************************************************************)
\* a score in the closed interval [0.0, 1.0]
InUnitInterval(x) == x # NaN /\ 0 <= x /\ x <= 100

\* request q is an analyze_message or reanalyze_message call past its commit
Analysed(q) == "analysis_result" \in DOMAIN call[q]

\* the ActionableItem rows of message m, in table order
ItemsOf(m) ==
    LET Own(row) == row.message_id = m
    IN  SelectRows(actionable_items, Own)

\* the AnalysisResult rows of message m
AnalysesOf(m) ==
    LET Own(row) == row.message_id = m
    IN  SelectRows(message_analysis, Own)

\* C1: a finished analyze_message call has handed back the analysis result of
\* its message, whatever the runners, the orchestrator, the reply suggestions
\* and the embedding write did; the one thing that makes it raise is its
\* relational write failing, and then nothing of the call was stored.
C1_AnalyzeMessageReturns ==
    \A q \in Requests :
        pc[q] = "done" /\ call[q].op = "analyze_message" =>
            IF Analysed(q)
            THEN /\ result[q].outcome = "returned"
                 /\ result[q].value.message_id = call[q].message
                 /\ result[q].value.summary = call[q].analysis_result.summary
            ELSE /\ result[q].outcome = "raised"
                 /\ result[q].error \in {"OperationalError", "IntegrityError"}

\* every runner raised, the suggestion step was entered and stored nothing,
\* the embedding was not written, and the call returned
C1_EverythingFailed ==
    \E q \in Requests :
        /\ pc[q] = "done" /\ call[q].op = "analyze_message" /\ Analysed(q)
        /\ ~call[q].fallback /\ call[q].model_output = AllRaised
        /\ call[q].suggest = "invoked" /\ smart_replies = <<>>
        /\ embeddings = {}
        /\ result[q].outcome = "returned"
        /\ result[q].value.summary = "Error generating summary"

\* the sender, lower-cased, holds one of the no-reply patterns
HoldsNoReplyPattern(sender) ==
    \E k \in 1..Len(no_reply_patterns) : Contains(no_reply_patterns[k], Lower(sender))

\* the three conditions: not spam, priority above 0.3, no no-reply pattern
ThreeConditions(q) ==
    /\ ~GetAttr(call[q].analysis_result, "is_spam", FALSE)
    /\ call[q].analysis_result.priority_score > 30
    /\ ~HoldsNoReplyPattern(messages[call[q].message].sender)

\* request q has passed the reply-suggestion step of analyze_message
PastSuggestions(q) == Analysed(q) /\ call[q].suggest # "not yet"

\* C2 as stated: reply-suggestion generation is invoked if and only if the
\* result is not spam, its priority is above 0.3 and the sender holds no
\* no-reply pattern.
C2_InvokedIffThreeConditions ==
    \A q \in Requests :
        PastSuggestions(q) => (call[q].suggest = "invoked" <=> ThreeConditions(q))

\* C2, amended: reply-suggestion generation is invoked if and only if the
\* result is not spam, its priority is above 0.3, and the sender is not empty
\* and holds no no-reply pattern.
C2_InvokedIffReplyable ==
    \A q \in Requests :
        PastSuggestions(q) =>
            (call[q].suggest = "invoked"
                <=> ThreeConditions(q) /\ messages[call[q].message].sender # "")

\* priority 0.31 from alice@example.com: suggestions are generated and stored
C2_AliceJustAboveThreshold ==
    \E q \in Requests :
        /\ PastSuggestions(q)
        /\ messages[call[q].message].sender = "alice@example.com"
        /\ ~call[q].fallback /\ call[q].model_output.priority.text = "0.31"
        /\ call[q].analysis_result.priority_score = 31
        /\ call[q].suggest = "invoked"
        /\ smart_replies # <<>>

\* C3: when reanalyze_message has returned, its message has exactly one
\* AnalysisResult row, the one of this run, and its ActionableItems are the
\* tasks and then the deadlines of this run's result, one item each.
C3_ReanalysisReplaces ==
    \A q \in Requests :
        pc[q] = "done" /\ result[q].op = "reanalyze_message" /\ result[q].outcome = "returned" =>
            LET m     == call[q].message
                value == result[q].value
                items == ItemsOf(m)
            IN  /\ Len(AnalysesOf(m)) = 1
                /\ AnalysesOf(m)[1].summary = value.summary
                /\ AnalysesOf(m)[1].intent = value.intent
                /\ AnalysesOf(m)[1].priority_score = value.priority_score
                /\ Len(items) = Len(value.tasks) + Len(value.deadlines)
                /\ \A k \in 1..Len(value.tasks) :
                       /\ items[k].type = value.tasks[k].type
                       /\ items[k].description = value.tasks[k].description
                /\ \A k \in 1..Len(value.deadlines) :
                       /\ items[Len(value.tasks) + k].type = "deadline"
                       /\ items[Len(value.tasks) + k].description = value.deadlines[k].description

\* the second committed re-analysis of a message has returned with items
C3_SecondReanalysis ==
    \E q \in Requests :
        /\ pc[q] = "done" /\ result[q].op = "reanalyze_message" /\ result[q].outcome = "returned"
        /\ reanalyses[call[q].message] = 2
        /\ ItemsOf(call[q].message) # <<>>

\* C4: an edit_reply that returned left its reply pending with the new
\* content; an approve_reply whose platform send failed, its status write
\* committed, left its reply approved and raised the failure again; a
\* reject_reply that returned left its reply rejected.
C4_ReviewOutcomes ==
    \A q \in Requests :
        pc[q] = "done" =>
            /\ result[q].op = "edit_reply" /\ result[q].outcome = "returned" =>
                   /\ smart_replies[call[q].reply].status = "pending"
                   /\ smart_replies[call[q].reply].draft_content = call[q].new_content
            /\ /\ result[q].op = "approve_reply" /\ "delivered" \in DOMAIN call[q]
               /\ ~call[q].delivered /\ result[q].error # "OperationalError"
               => /\ smart_replies[call[q].reply].status = "approved"
                  /\ result[q].outcome = "raised"
                  /\ result[q].error = "Exception"
            /\ result[q].op = "reject_reply" /\ result[q].outcome = "returned" =>
                   smart_replies[call[q].reply].status = "rejected"

\* an approval whose send failed: the reply is approved, nothing was
\* delivered, and the caller has the failure
C4_SendFailedApproved ==
    \E q \in Requests :
        /\ pc[q] = "done" /\ result[q].op = "approve_reply"
        /\ "delivered" \in DOMAIN call[q] /\ ~call[q].delivered
        /\ smart_replies[call[q].reply].status = "approved"
        /\ outbox = <<>>
        /\ result[q].outcome = "raised" /\ result[q].http = 500

\* the edges of the authoritative state machine
AuthoritativeEdges ==
    { <<"suggestion", "pending">>, <<"pending", "sent">>, <<"pending", "approved">>,
      <<"approved", "sent">>, <<"pending", "rejected">> }

C6_VectorFailureReported ==
    \A q \in Requests :
        /\ pc[q] = "done" /\ call[q].op = "delete_message_data"
        /\ call[q].db_ok /\ ~call[q].qdrant_ok
        => result[q].value = FALSE

\* C7: when delete_user_data(u) has returned True, no AnalysisResult of a
\* message of u, no ActionableItem of u and no embedding of u remains; when
\* delete_message_data(m) has returned True, none for m remains.
C7_NothingRemainsAfterTrue ==
    \A q \in Requests :
        pc[q] = "done" /\ result[q].outcome = "returned" =>
            /\ result[q].op = "delete_user_data" /\ result[q].value = TRUE =>
                   /\ \A k \in 1..Len(message_analysis) :
                          messages[message_analysis[k].message_id].user_id # call[q].user
                   /\ \A k \in 1..Len(actionable_items) : actionable_items[k].user_id # call[q].user
                   /\ \A p \in embeddings : p.user_id # call[q].user
            /\ result[q].op = "delete_message_data" /\ result[q].value = TRUE =>
                   /\ AnalysesOf(call[q].message) = <<>>
                   /\ ItemsOf(call[q].message) = <<>>
                   /\ \A p \in embeddings : p.message_id # call[q].message

\* C8: the priority score and the spam score of every AnalysisResult row
\* stored, of every result computed and of every result handed back lie in
\* [0.0, 1.0].
C8_ScoresInUnitInterval ==
    /\ \A k \in 1..Len(message_analysis) :
           /\ InUnitInterval(message_analysis[k].priority_score)
           /\ InUnitInterval(message_analysis[k].spam_score)
    /\ \A q \in Requests :
           /\ Analysed(q) =>
                  /\ InUnitInterval(call[q].analysis_result.priority_score)
                  /\ InUnitInterval(GetAttr(call[q].analysis_result, "spam_score", 0))
           /\ pc[q] = "done" /\ result[q].op = "analyze_message" /\ result[q].outcome = "returned" =>
                  /\ InUnitInterval(result[q].value.priority_score)
                  /\ InUnitInterval(result[q].value.spam_score)

\* the model said 1.5 for the priority and 7 for the spam score: both are
\* stored and handed back as 1.0
C8_OutOfRangeClamped ==
    \E q \in Requests :
        /\ pc[q] = "done" /\ result[q].op = "analyze_message" /\ result[q].outcome = "returned"
        /\ ~call[q].fallback
        /\ call[q].model_output.priority.text = "1.5"
        /\ call[q].model_output.spam.text = "IS_SPAM: TRUE\nSPAM_SCORE: 7\nSPAM_TYPE: phishing"
        /\ result[q].value.priority_score = 100
        /\ result[q].value.spam_score = 100
        /\ message_analysis[1].priority_score = 100

\* the fixed set of intents
FixedIntents == {"request", "information", "question", "meeting", "notification", "social", "other"}

\* C9: the intent of every AnalysisResult row stored and of every result
\* handed back by analyze_message is in the fixed set.
C9_IntentInFixedSet ==
    /\ \A k \in 1..Len(message_analysis) : message_analysis[k].intent \in FixedIntents
    /\ \A q \in Requests :
           pc[q] = "done" /\ result[q].op = "analyze_message" /\ result[q].outcome = "returned" =>
               result[q].value.intent \in FixedIntents

\* the messages table without message m
WithoutMessage(m) == [x \in DOMAIN messages \ {m} |-> messages[x]]

\* C10: generate_smart_reply for a message of another user, and approve_reply,
\* edit_reply and reject_reply for a reply of another user, end as they end
\* when the message or the reply does not exist: the same error class, the
\* same text, the same HTTP status.
C10_WrongOwnerAsMissing ==
    \A q \in Requests :
        pc[q] = "done" =>
            /\ /\ call[q].op = "generate_smart_reply"
               /\ call[q].message \in DOMAIN messages
               /\ messages[call[q].message].user_id # call[q].user
               => result[q] = Raise("generate_smart_reply", "ValueError",
                                    generate_lookup(WithoutMessage(call[q].message),
                                                    call[q].message, call[q].user))
            /\ /\ call[q].op \in {"approve_reply", "edit_reply", "reject_reply"}
               /\ call[q].reply \in 1..Len(smart_replies)
               /\ smart_replies[call[q].reply].user_id # call[q].user
               => result[q] = Raise(call[q].op, "ValueError",
                                    reply_lookup(<<>>, call[q].reply, call[q].user))

\* C11: an approve_reply, edit_reply or reject_reply call for a reply that is
\* not the caller's, or not pending, or not there, ends at once with an error:
\* no reply's status, content, reviewed_at or sent_at changes and nothing is
\* handed to a platform adapter.
C11_RefusedLeavesReply ==
    [][\A q \in Requests :
           /\ pc[q] = "idle" /\ pc'[q] # "idle"
           /\ call'[q].op \in {"approve_reply", "edit_reply", "reject_reply"}
           /\ ~ /\ call'[q].reply \in 1..Len(smart_replies)
                /\ smart_replies[call'[q].reply].user_id = call'[q].user
                /\ smart_replies[call'[q].reply].status = "pending"
           => /\ pc'[q] = "done"
              /\ result'[q].outcome = "raised"
              /\ smart_replies' = smart_replies
              /\ outbox' = outbox]_vars

\* another user's approve_reply for a pending reply was refused: the reply is
\* still pending, not reviewed, and nothing was delivered
C11_StrangerRefused ==
    \E q \in Requests :
        /\ pc[q] = "done" /\ call[q].op = "approve_reply"
        /\ call[q].reply \in 1..Len(smart_replies)
        /\ smart_replies[call[q].reply].user_id # call[q].user
        /\ smart_replies[call[q].reply].status = "pending"
        /\ smart_replies[call[q].reply].reviewed_at = None
        /\ result[q].outcome = "raised" /\ result[q].http = 404
        /\ outbox = <<>>

\* C12: a retry of the approval (approve_reply by the owner for a reply left
\* approved) goes on to the platform send.
C12_ApprovedCanBeRetried ==
    [][\A q \in Requests :
           /\ pc[q] = "idle" /\ pc'[q] # "idle"
           /\ call'[q].op = "approve_reply"
           /\ call'[q].reply \in 1..Len(smart_replies)
           /\ smart_replies[call'[q].reply].user_id = call'[q].user
           /\ smart_replies[call'[q].reply].status = "approved"
           => pc'[q] = "send"]_vars

C14_OneAnalysisPerMessage ==
    /\ [](\A m \in DOMAIN messages : Len(AnalysesOf(m)) <= 1)
    /\ [][\A q \in Requests :
              /\ pc[q] = "idle" /\ pc'[q] # "idle"
              /\ call'[q].op = "analyze_message"
              /\ AnalysesOf(call'[q].message) # <<>>
              => /\ message_analysis' = message_analysis
                 /\ actionable_items' = actionable_items]_vars

\* analyze_message was called for a message already analysed: the unique
\* column refused the second row, and the first run's row and items are there
C14_SecondAnalysisRefused ==
    \E q \in Requests :
        /\ pc[q] = "done" /\ result[q].op = "analyze_message"
        /\ result[q].outcome = "raised" /\ result[q].error = "IntegrityError"
        /\ Len(AnalysesOf(call[q].message)) = 1
        /\ ItemsOf(call[q].message) # <<>>

\* C15: an analysis whose runners all raised (the model client is unusable)
\* is the fallback processor's: the orchestrator's result is never used for it.
C15_UnusableClientFallsBack ==
    \A q \in Requests :
        Analysed(q) /\ ~call[q].fallback => call[q].model_output # AllRaised

\* C16: the result analyze_message hands back carries the degraded-analysis
\* tag exactly when the fallback processor produced it.
C16_FallbackTagged ==
    \A q \in Requests :
        pc[q] = "done" /\ result[q].op = "analyze_message" /\ result[q].outcome = "returned" =>
            (call[q].fallback <=>
                "fallback_used" \in DOMAIN result[q].value /\ result[q].value.fallback_used)

\* C17: in the orchestrator's result each field of a runner that raised holds
\* its default ('Error generating summary', other, 0.5, no tasks, no
\* deadlines, not spam with score 0 and type none) and each field of a runner
\* that returned holds what that runner made of its own text, whatever the
\* other runners did.
C17_FailedRunnersDefault ==
    \A q \in Requests :
        Analysed(q) /\ ~call[q].fallback =>
            LET out     == call[q].model_output
                ar      == call[q].analysis_result
                message == messages[call[q].message]
                tasks     == IF out.tasks.ok THEN task_lists[out.tasks.text] ELSE <<>>
                deadlines == IF out.deadlines.ok THEN deadline_lists[out.deadlines.text] ELSE <<>>
                spam      == IF out.spam.ok THEN spam_results[out.spam.text, message]
                             ELSE [is_spam |-> FALSE, spam_score |-> 0, spam_type |-> "none",
                                   unsubscribe_link |-> None]
            IN  /\ ar.summary = IF out.summary.ok THEN summaries[out.summary.text]
                                ELSE "Error generating summary"
                /\ ar.intent = IF out.intent.ok THEN intents[out.intent.text] ELSE "other"
                /\ ar.priority_score = IF out.priority.ok THEN priorities[out.priority.text] ELSE 50
                /\ Len(ar.tasks) = Len(tasks)
                /\ \A k \in 1..Len(tasks) :
                       /\ ar.tasks[k].type = tasks[k].type
                       /\ ar.tasks[k].description = tasks[k].description
                /\ ar.deadlines = deadlines
                /\ ar.is_spam = spam.is_spam
                /\ ar.spam_score = spam.spam_score
                /\ ar.spam_type = spam.spam_type
                /\ ar.unsubscribe_link = spam.unsubscribe_link

\* the summary and spam runners raised and the others returned: the summary
\* and the spam fields are the defaults, the rest is what the runners parsed
C17_TwoRunnersFailed ==
    \E q \in Requests :
        /\ Analysed(q) /\ ~call[q].fallback
        /\ ~call[q].model_output.summary.ok /\ ~call[q].model_output.spam.ok
        /\ \A f \in Runners \ {"summary", "spam"} : call[q].model_output[f] = BaseOut[f]
        /\ call[q].analysis_result.summary = "Error generating summary"
        /\ call[q].analysis_result.spam_type = "none"
        /\ call[q].analysis_result.intent = "request"
        /\ call[q].analysis_result.priority_score = 90
        /\ Len(call[q].analysis_result.tasks) = 2
        /\ Len(call[q].analysis_result.deadlines) = 2

\* C18: a step that stores ActionableItems of a message leaves the message
\* with its AnalysisResult row (the row is written before or together with
\* the items), and a step that stores reply suggestions for a message finds
\* the AnalysisResult row and the ActionableItems of that run already
\* committed.
C18_SuggestionsAfterCommit ==
    [][/\ \A m \in DOMAIN messages :
              Len(ItemsOf(m)') > Len(ItemsOf(m)) => AnalysesOf(m)' # <<>>
       /\ \A k \in (Len(smart_replies) + 1)..Len(smart_replies') :
              smart_replies'[k].status = "suggestion" =>
                  \E q \in Requests :
                      LET m == smart_replies'[k].message_id
                      IN  /\ pc[q] = "suggest" /\ call[q].message = m
                          /\ AnalysesOf(m) = << AnalysisRow(messages[m], call[q].analysis_result) >>
                          /\ ItemsOf(m) = ActionableRows(messages[m], call[q].analysis_result)]_vars

\* the suggestions of a run are stored, after its row and its items
C18_SuggestionsStored ==
    \E q \in Requests :
        /\ pc[q] = "embed" /\ call[q].suggest = "invoked"
        /\ \E k \in 1..Len(smart_replies) :
               /\ smart_replies[k].message_id = call[q].message
               /\ smart_replies[k].status = "suggestion"
        /\ Len(AnalysesOf(call[q].message)) = 1
        /\ Len(ItemsOf(call[q].message)) = 4

\* C19: the reply-suggestion step and the embedding step of analyze_message
\* never end the call with an error and never touch message_analysis or
\* actionable_items: after them the call hands back the result whose row and
\* items it committed, whether or not suggestions and embedding were stored.
C19_SideEffectsSwallowed ==
    [][\A q \in Requests :
           /\ pc[q] = "suggest" /\ pc'[q] # "suggest" =>
                  /\ pc'[q] = "embed"
                  /\ UNCHANGED << message_analysis, actionable_items >>
           /\ pc[q] = "embed" /\ pc'[q] # "embed" =>
                  LET m == call[q].message
                  IN  /\ pc'[q] = "done"
                      /\ result'[q].outcome = "returned"
                      /\ result'[q].value = AnalysisSchema(messages[m], call[q].analysis_result)
                      /\ UNCHANGED << message_analysis, actionable_items >>
                      /\ AnalysesOf(m) = << AnalysisRow(messages[m], call[q].analysis_result) >>
                      /\ ItemsOf(m) = ActionableRows(messages[m], call[q].analysis_result)]_vars

\* suggestion generation was invoked and stored nothing, the embedding was
\* not written, and the call returned with its row and its four items stored
C19_BothSideEffectsFailed ==
    \E q \in Requests :
        /\ pc[q] = "done" /\ Analysed(q) /\ call[q].suggest = "invoked"
        /\ \A k \in 1..Len(smart_replies) : smart_replies[k].message_id # call[q].message
        /\ \A p \in embeddings : p.message_id # call[q].message
        /\ result[q].outcome = "returned"
        /\ Len(AnalysesOf(call[q].message)) = 1
        /\ Len(ItemsOf(call[q].message)) = 4

\* C20: an analyze_message or reanalyze_message call that ends with the
\* error of its relational write leaves message_analysis and actionable_items
\* holding exactly the rows they held when the call began.
C20_FailedWriteLeavesStore ==
    [][\A q \in Requests :
           /\ pc[q] \in {"idle", "analyze"} /\ pc'[q] = "done"
           /\ result'[q].op \in {"analyze_message", "reanalyze_message"}
           /\ result'[q].outcome = "raised"
           => IF pc[q] = "idle"
              THEN UNCHANGED << message_analysis, actionable_items >>
              ELSE /\ message_analysis' = call[q].prior.message_analysis
                   /\ actionable_items' = call[q].prior.actionable_items]_vars

\* the reply suggestions of message m, in table order
SuggestionsOf(m) ==
    LET Own(row) == row.message_id = m /\ row.status = "suggestion"
    IN  SelectRows(smart_replies, Own)

\* what the call of request q computes for its message from its own inputs
AloneResult(q) ==
    AnalysisResultOf(messages[call[q].message], call[q].model_output, ~call[q].fallback)

\* the suggestion rows a call on message m can store when it runs alone:
\* none (not wanted, the model call raising, the commit failing) or the rows
\* parsed from the model's reply text
AloneSuggestions(m) ==
    {<<>>} \cup {SuggestionRows(messages[m], reply.text) : reply \in {x \in InboxReplies : x.ok}}

\* C21: with two analyze_message calls interleaved at their awaits, a call
\* past its commit finds for its message the AnalysisResult row and the
\* ActionableItems of the result it computed from its own inputs, and the
\* suggestion rows of its own message (none before its suggestion step and
\* when that step was skipped); every row a step adds to the three tables
\* carries the message id of the call that took the step.
C21_ConcurrentAnalysesIndependent ==
    /\ [](\A q \in Requests :
             Analysed(q) =>
                 LET m == call[q].message
                 IN  /\ call[q].analysis_result = AloneResult(q)
                     /\ AnalysesOf(m) = <<AnalysisRow(messages[m], AloneResult(q))>>
                     /\ ItemsOf(m) = ActionableRows(messages[m], AloneResult(q))
                     /\ SuggestionsOf(m) \in AloneSuggestions(m)
                     /\ call[q].suggest # "invoked" => SuggestionsOf(m) = <<>>)
    /\ [][\A q \in Requests :
             pc'[q] # pc[q] =>
                 /\ \A k \in (Len(message_analysis) + 1)..Len(message_analysis') :
                        message_analysis'[k].message_id = call'[q].message
                 /\ \A k \in (Len(actionable_items) + 1)..Len(actionable_items') :
                        actionable_items'[k].message_id = call'[q].message
                 /\ \A k \in (Len(smart_replies) + 1)..Len(smart_replies') :
                        smart_replies'[k].message_id = call'[q].message]_vars

\* both requests are past their suggestion steps, each for another message
\* of the same user; the first committed its analysis first and stored its
\* suggestions second
C21_InterleavedAnalyses ==
    /\ pc[1] = "embed" /\ pc[2] = "embed"
    /\ call[1].message # call[2].message
    /\ messages[call[1].message].user_id = messages[call[2].message].user_id
    /\ message_analysis[1].message_id = call[1].message
    /\ Len(smart_replies) = 6
    /\ smart_replies[1].message_id = call[2].message
    /\ smart_replies[4].message_id = call[1].message

\* request q is a generate_smart_reply call that invoked the generation agent
Generating(q) == call[q].op = "generate_smart_reply" /\ "config" \in DOMAIN call[q]

\* C22: two reply generations that differ in their user or in the thread of
\* their message invoke the generation agent under different memory
\* namespaces.
C22_NamespacePerUserAndThread ==
    \A q1, q2 \in Requests :
        /\ Generating(q1) /\ Generating(q2)
        /\ \/ call[q1].user # call[q2].user
           \/ messages[call[q1].message].thread_id # messages[call[q2].message].thread_id
        => call[q1].config # call[q2].config

Parsed(q, op) == pc[q] = "done" /\ call[q].op = op

\* the URL the List-Unsubscribe header of each metadata above holds in angle
\* brackets, worked out by hand
ExpectedHeaderUrl(metadata) ==
    IF metadata = ListUnsubscribe THEN "https://x.com/u" ELSE None

\* the first match of the five content patterns, tried in their order, in
\* each content above, worked out by hand
ExpectedContentLink(content) ==
    CASE content = PromoContent -> "https://x.com/unsubscribe?id=1"
      [] content = "See https://a.com/unsubscribe or <a href='https://a.com/opt-out'>here</a>"
             -> "https://a.com/opt-out"
      [] content = "Stop: HTTP://B.com/Unsubscribe/me now" -> "HTTP://B.com/Unsubscribe/me"
      [] content = "<a href=\"https://c.com/remove\">x</a> https://c.com/opt-out"
             -> "https://c.com/remove"
      [] content = "Visit https://d.com/opt-out." -> "https://d.com/opt-out."
      [] OTHER -> None

\* C23: detect_spam hands back an unsubscribe link only with a verdict of
\* spam in category promotional, newsletter or marketing; with such a verdict
\* the link is the URL in angle brackets of the List-Unsubscribe header when
\* there is one, whatever the content links to, and otherwise the first match
\* of the content patterns in their order, or none.
C23_UnsubscribeLink ==
    \A q \in Requests :
        Parsed(q, "detect_spam") =>
            LET value == result[q].value
            IN  IF value.is_spam /\ value.spam_type \in {"promotional", "newsletter", "marketing"}
                THEN value.unsubscribe_link =
                         IF ExpectedHeaderUrl(call[q].metadata) # None
                         THEN ExpectedHeaderUrl(call[q].metadata)
                         ELSE ExpectedContentLink(call[q].content)
                ELSE value.unsubscribe_link = None

\* a promotional message with a header URL and another link in its content:
\* the header's URL is handed back
C23_HeaderBeatsContent ==
    \E q \in Requests :
        /\ Parsed(q, "detect_spam")
        /\ call[q].metadata = ListUnsubscribe /\ call[q].content = PromoContent
        /\ result[q].value.is_spam /\ result[q].value.spam_type = "promotional"
        /\ result[q].value.unsubscribe_link = "https://x.com/u"

\* a line of the task format: a type of the three before its first colon
WellFormedTask(raw) ==
    LET line == Strip(raw)
    IN  /\ Contains(":", line)
        /\ Lower(Strip(Split1(line, ":")[1])) \in {"task", "deadline", "meeting"}

\* a line of the deadline format
WellFormedDeadline(raw) == StartsWith(Strip(raw), "DEADLINE:")

\* C24: extract_tasks and detect_deadlines hand back the empty list for the
\* sentinel and for empty output, and otherwise one tuple per well-formed
\* line, in the order of the lines; malformed lines are dropped ('task: buy
\* milk', 'invalidline', 'deadline: file report' gives exactly the two
\* tuples).
C24_WellFormedLinesKept ==
    \A q \in Requests :
        /\ Parsed(q, "extract_tasks") =>
               LET text  == Strip(call[q].text)
                   good  == SelectSeq(Split(text, "\n"), WellFormedTask)
                   value == result[q].value
               IN  /\ text \in {"NO_TASKS", ""} => value = <<>>
                   /\ text \notin {"NO_TASKS", ""} =>
                          /\ Len(value) = Len(good)
                          /\ \A k \in 1..Len(good) :
                                 /\ value[k].type = Lower(Strip(Split1(Strip(good[k]), ":")[1]))
                                 /\ value[k].description = Strip(Split1(Strip(good[k]), ":")[2])
                   /\ call[q].text = "task: buy milk\ninvalidline\ndeadline: file report" =>
                          value = << [type |-> "task", description |-> "buy milk"],
                                     [type |-> "deadline", description |-> "file report"] >>
        /\ Parsed(q, "detect_deadlines") =>
               LET text  == Strip(call[q].text)
                   good  == SelectSeq(Split(text, "\n"), WellFormedDeadline)
                   value == result[q].value
               IN  /\ text \in {"NO_DEADLINES", ""} => value = <<>>
                   /\ text \notin {"NO_DEADLINES", ""} => Len(value) = Len(good)
                   /\ call[q].text = "DEADLINE: file report | DATE: 2024-12-01\njunk\nDEADLINE: call Bob" =>
                          value = << [description |-> "file report", date |-> "2024-12-01"],
                                     [description |-> "call Bob", date |-> None] >>

\* the three lines of the example gave their two tuples
C24_MalformedLineDropped ==
    \E q \in Requests :
        /\ Parsed(q, "extract_tasks")
        /\ call[q].text = "task: buy milk\ninvalidline\ndeadline: file report"
        /\ Len(result[q].value) = 2

\* a line the reply parser takes: REPLY_ at its start and a colon
ReplyOption(raw) == StartsWith(Strip(raw), "REPLY_") /\ Contains(":", Strip(raw))

\* C25 as stated: generate_smart_replies hands back exactly three options
\* for every model output.
C25_ExactlyThreeReplies ==
    \A q \in Requests :
        Parsed(q, "generate_smart_replies") => Len(result[q].value) = 3

\* C25, amended: generate_smart_replies hands back between one and three
\* options: the first three REPLY_N lines of the model output, fewer when it
\* holds fewer, or the three generic fallback replies when it holds none.
C25_UpToThreeReplies ==
    \A q \in Requests :
        Parsed(q, "generate_smart_replies") =>
            LET options == SelectSeq(Split(Strip(call[q].text), "\n"), ReplyOption)
                value   == result[q].value
            IN  /\ Len(value) \in 1..3
                /\ options = <<>> => value = FallbackReplies
                /\ options # <<>> =>
                       /\ Len(value) = IF Len(options) < 3 THEN Len(options) ELSE 3
                       /\ \A k \in 1..Len(value) : value[k] = ReplyLine(Strip(options[k]))

\* a model output of one REPLY_ line gave one option
C25_OneLineOneReply ==
    \E q \in Requests :
        /\ Parsed(q, "generate_smart_replies")
        /\ call[q].text = "REPLY_1: [Thanks] Thank you!"
        /\ result[q].value = << [text |-> "Thank you!", type |-> "thanks", confidence |-> 90] >>

\* the SPAM_SCORE lines of a model output
ScoreLine(raw) == StartsWith(Strip(raw), "SPAM_SCORE:")

\* the model output has a SPAM_SCORE line and none whose value is a number
UnparsableScore(text) ==
    LET lines == SelectSeq(Split(Strip(text), "\n"), ScoreLine)
    IN  /\ lines # <<>>
        /\ \A k \in 1..Len(lines) : ~ParseFloat(Split1(Strip(lines[k]), ":")[2]).ok

\* C26: when the SPAM_SCORE value is not a number, the confidence handed
\* back is 0.5 with a spam flag of true and 0.0 with a flag of false, in
\* whatever order the lines come.
C26_UnparsableScoreDefault ==
    \A q \in Requests :
        Parsed(q, "detect_spam") /\ UnparsableScore(call[q].text) =>
            result[q].value.spam_score = IF result[q].value.is_spam THEN 50 ELSE 0

\* C27: a refresh_platform_token call whose adapter raised PlatformAPIError,
\* ConnectionError or TimeoutError reports its failure only after four
\* attempts (three retries).
C27_RetriedUntilExhausted ==
    \A q \in Requests :
        /\ pc[q] = "done" /\ call[q].op = "refresh_platform_token"
        /\ result[q].outcome = "raised"
        /\ call[q].adapter.error \in RetryExceptions
        /\ << call[q].user, call[q].platform >> \in DOMAIN connections
        /\ connections[<< call[q].user, call[q].platform >>].refresh_token # None
        => call[q].attempts = max_retries + 1

\* C28: a message never has more than three replies of status suggestion,
\* whatever analyze_message and reanalyze_message calls were made on it.
C28_AtMostThreeSuggestions ==
    \A m \in DOMAIN messages : Len(SuggestionsOf(m)) <= 3

\* C30: the thread context generate_smart_reply builds for a user holds
\* messages of that user only, oldest first.
C30_ThreadContextOfOwner ==
    \A q \in Requests :
        call[q].op = "generate_smart_reply" /\ "thread_context" \in DOMAIN call[q] =>
            LET context == call[q].thread_context
            IN  /\ \A k \in 1..Len(context) : messages[context[k]].user_id = call[q].user
                /\ \A j, k \in 1..Len(context) :
                       j < k => messages[context[j]].timestamp <= messages[context[k]].timestamp

====
